---- MODULE Spec2Model ----
(***************************************************************************)
(* Checkpoint lifecycle of neuronx_distributed/trainer/checkpoint.py:      *)
(* CheckpointIOState (begin / add_save_task / end / wait_save /            *)
(* submit_remove / wait_remove / wait_all), the retention policy           *)
(* _determine_remove_tags, the tensor bin packer _assign_tensors_to_bins,  *)
(* the save plan of save_checkpoint with use_xser, and the tag selection   *)
(* of load_checkpoint.                                                     *)
(*                                                                         *)
(* One process per rank; every rank runs the same call sequence.  A rank's *)
(* position is pc[r]; every storage call and every barrier is one step.    *)
(* Tags are fresh integers 1, 2, ... in creation order; 0 stands for None. *)
(***************************************************************************)
EXTENDS Integers, Sequences, FiniteSets, TLC

\* ------------------------------------------------------------- bounds
MaxRanks == 2
MaxTags == 3
MaxTensors == 1
MaxKeep == 2
MaxCrashes == 1
MaxFinalize == 1
\* save plan inputs
MaxPlanTensors == 3
\* bin packer inputs
MaxBins == 3
MaxItems == 3
MaxNumel == 2
\* replicated load inputs
MaxLoadGroup == 3
MaxLoadTensors == 3
MaxValue == 1
\* add_save_task inputs: characters of a path, add_save_task calls of a rank
MaxPathLen == 4
MaxPathCalls == 2

VARIABLES
    world,        \* [n |-> world size, g |-> size of each data-parallel group]
    asyncSave,    \* CheckpointIOState._async_save
    numKept,      \* num_kept_ckpts of every save_checkpoint call: <<>> is None, <<k>> is k
    tagLimit,     \* the last tag the training run saves
    explicitTags, \* the remove_tags argument of a direct submit_remove call (<<>>: the default)
    tensors,      \* the tensors of the saved model, [numel, esize]; tensor i is tensors[i+1]
    withSched,    \* whether save_checkpoint gets a scheduler (rank 0 saves scheduler.pt)
    withModel,    \* whether save_checkpoint gets a model (FALSE: model is None)
    finalizeLimit, \* the wait_all() calls a run makes: finalize_checkpoint and the exit hook
    ckpt,         \* storage: tags whose `checkpoint` marker exists
    done,         \* storage: tags whose `done` marker exists
    dirs,         \* storage: tags whose directory exists
    files,        \* storage: payload files <<tag, rel>>
    pc,           \* position of each rank's main thread
    ret,          \* where the running wait_save / submit_remove returns to
    argTag,       \* the tag argument of the running save_checkpoint
    asyncRemove,  \* the async_remove argument of the running wait_save / submit_remove
    curTag,       \* _current_tag (0 is None)
    relNames,     \* _relative_filenames
    todo,         \* the add_save_task calls save_checkpoint has still to make
    saveItems,    \* _save_items
    saveTask,     \* the save future: [st, items left, held: _save_task refers to it]
    removeTask,   \* the removal future: [st, files left, held: _remove_task refers to it]
    removeTagsF,  \* _remove_tags
    numKeptF,     \* _num_kept
    rmTags,       \* remove_tags of the running submit_remove
    rmScan,       \* completed_tags seen by the running _determine_remove_tags
    rmLeft,       \* the tags the running loop of submit_remove / wait_remove has still to visit
    rmFiles,      \* remove_filenames the running synchronous remove_files has still to delete
    ncalls,       \* calls each rank has issued since its process started
    script,       \* the call sequence all ranks follow: "save", "final", "remove_sync", ...
    nextTag,      \* the tag of the next save_checkpoint of this process
    crashes,      \* process-group restarts so far
    raised,       \* whether a call of the rank has raised the failure of a background task
    everDone,     \* history: the tags whose `done` marker has ever been written
    killed,       \* history: the tags whose save a restart cut between payload and `done`
    loadSel,      \* outcome of the last load_checkpoint(tag=None): [st, tag]
    binIn,        \* bin packer: the input [tensors, bins]
    binOut,       \* bin packer: result of each of the two independent callers
    ldDisk,       \* replicated load: the tensor values on disk, ldDisk[group][tid + 1]
    ldInfo,       \* replicated load: whether the side table <path>.info.pt exists
    loader        \* replicated load: each rank's position in convert_fn of _xser_load_data

storageVars == <<ckpt, done, dirs, files>>
configVars ==
    <<world, asyncSave, numKept, tagLimit, explicitTags, tensors, withSched, withModel,
      finalizeLimit>>
rankVars == <<pc, ret, argTag, asyncRemove, curTag, relNames, todo, saveItems, saveTask,
              removeTask, removeTagsF, numKeptF, rmTags, rmScan, rmLeft, rmFiles,
              ncalls, nextTag>>
packVars == <<binIn, binOut>>
loadVars == <<ldDisk, ldInfo, loader>>
vars == <<configVars, storageVars, rankVars, script, crashes, raised, everDone, killed, loadSel,
         packVars, loadVars>>

\* ------------------------------------------------------------- helpers
Ranks == 0 .. (world.n - 1)

Min(a, b) == IF a <= b THEN a ELSE b

Max(a, b) == IF a >= b THEN a ELSE b

RECURSIVE SortedSeq(_)
SortedSeq(S) ==
    IF S = {} THEN <<>>
    ELSE LET m == CHOOSE x \in S : \A y \in S : x <= y
         IN  <<m>> \o SortedSeq(S \ {m})

RECURSIVE FilterSeq(_, _)
FilterSeq(s, S) ==
    IF s = <<>> THEN <<>>
    ELSE (IF Head(s) \in S THEN <<Head(s)>> ELSE <<>>) \o FilterSeq(Tail(s), S)

SeqToSet(s) == {s[i] : i \in 1 .. Len(s)}

RECURSIVE SumSeq(_)
SumSeq(s) == IF s = <<>> THEN 0 ELSE Head(s) + SumSeq(Tail(s))

\* ------------------------------------------------------------- storage port
\* list_checkpoint_tags: the tags that carry a `checkpoint` marker, oldest first
ListCheckpointTags(ck) == SortedSeq(ck)

\* list_completed_checkpoint_tags: the tags that carry a `done` marker, oldest first
ListCompletedCheckpointTags(dn) == SortedSeq(dn)

\* file_exists(tag/done)
DoneExists(dn, tag) == tag \in dn

\* remove_files / remove_file: the named files are gone afterwards
RemoveFileFrom(fs, f) == fs \ {f}

\* remove_dirs on one tag: the whole sub-tree of the tag is gone
FilesOutsideTag(fs, tag) == {f \in fs : f[1] # tag}

\* ------------------------------------------------------------- retention policy
\* a keep-all test that knows None only
KeepAllOnlyWhenNone(K) == K = <<>>

\* `num_kept is not None and num_kept != -1`, negated
IsKeepAll(K) == K = <<>> \/ K[1] = -1

\* a classification that takes every incomplete tag for corrupted
RECURSIVE ClassifyTagsAllCorrupted(_, _, _, _)
ClassifyTagsAllCorrupted(tags, dn, corrupted, completed) ==
    IF tags = <<>> THEN [corrupted |-> corrupted, completed |-> completed]
    ELSE IF DoneExists(dn, Head(tags))
         THEN ClassifyTagsAllCorrupted(Tail(tags), dn, corrupted, Append(completed, Head(tags)))
         ELSE ClassifyTagsAllCorrupted(Tail(tags), dn, Append(corrupted, Head(tags)), completed)

\* the loop of _determine_remove_tags over the listing: [corrupted, completed]
RECURSIVE ClassifyTags(_, _, _, _)
ClassifyTags(tags, dn, corrupted, completed) ==
    IF tags = <<>> THEN [corrupted |-> corrupted, completed |-> completed]
    ELSE IF DoneExists(dn, Head(tags))
         THEN ClassifyTags(Tail(tags), dn, corrupted, Append(completed, Head(tags)))
         ELSE IF Len(completed) = 0
              THEN ClassifyTags(Tail(tags), dn, Append(corrupted, Head(tags)), completed)
              ELSE ClassifyTags(Tail(tags), dn, corrupted, completed)

\* a quota check that is off by one: keeps one completed tag more than num_kept
ExcessTagsKeepOneMore(completed, K) ==
    IF ~IsKeepAll(K) /\ Len(completed) > K[1] + 1
    THEN SubSeq(completed, 1, Len(completed) - K[1] - 1)
    ELSE <<>>

\* completed_tags[0 : len(completed_tags) - num_kept] when the quota is exceeded
ExcessTags(completed, K) ==
    IF ~IsKeepAll(K) /\ Len(completed) > K[1]
    THEN SubSeq(completed, 1, Min(Len(completed), Len(completed) - K[1]))
    ELSE <<>>

DetermineRemoveTags(ck, dn, K) ==
    LET c == ClassifyTags(ListCheckpointTags(ck), dn, <<>>, <<>>)
    IN  c.corrupted \o ExcessTags(c.completed, K)

\* ------------------------------------------------------------- bin packer
TensorBytes(t) == t.numel * t.esize

\* the orders in which a sort can return the indices 0..n-1
IndexOrders(n) ==
    {p \in [1 .. n -> 0 .. (n - 1)] : \A a, b \in 1 .. n : a # b => p[a] # p[b]}

\* an ascending sort that may return tensors of equal size in any order
AscendingOrders(ts) ==
    {p \in IndexOrders(Len(ts)) :
        \A a, b \in 1 .. Len(ts) :
            a < b => TensorBytes(ts[p[a] + 1]) <= TensorBytes(ts[p[b] + 1])}

\* sorted(tensor_sizes, key=size): every order the call can return. The sort is ascending
\* by size and stable, so tensors of equal size stay in input order
SortedOrders(ts) ==
    {p \in IndexOrders(Len(ts)) :
        \A a, b \in 1 .. Len(ts) :
            a < b => \/ TensorBytes(ts[p[a] + 1]) < TensorBytes(ts[p[b] + 1])
                     \/ /\ TensorBytes(ts[p[a] + 1]) = TensorBytes(ts[p[b] + 1])
                        /\ p[a] < p[b]}

\* a choice of bin that ignores the running totals
AlwaysFirstBin(sizes) == {0}

\* bin_sizes.index(min(bin_sizes)): every bin the expression can yield. min takes the
\* least running total and index the first position that holds it
SmallestBins(sizes) ==
    {b \in DOMAIN sizes :
        /\ \A c \in DOMAIN sizes : sizes[b] <= sizes[c]
        /\ \A c \in DOMAIN sizes : c < b => sizes[c] # sizes[b]}

\* the loop over the sorted sizes: every value of bin_tidxs it can end with
RECURSIVE PackLoop(_, _, _, _)
PackLoop(order, ts, tidxs, sizes) ==
    IF order = <<>> THEN {tidxs}
    ELSE LET i == Head(order)
         IN  UNION {PackLoop(Tail(order), ts,
                             [tidxs EXCEPT ![bid] = Append(@, i)],
                             [sizes EXCEPT ![bid] = @ + TensorBytes(ts[i + 1])]) :
                        bid \in SmallestBins(sizes)}

\* every value a call of _assign_tensors_to_bins can return
PackResults(ts, binCount) ==
    UNION {PackLoop(order, ts,
                    [b \in 0 .. (binCount - 1) |-> <<>>],
                    [b \in 0 .. (binCount - 1) |-> 0]) : order \in SortedOrders(ts)}

\* _assign_tensors_to_bins as the callers use it: bin b (0-based) is the sequence result[b]
AssignTensorsToBins(ts, binCount) == CHOOSE res \in PackResults(ts, binCount) : TRUE

\* ------------------------------------------------------------- rank groups
\* get_data_parallel_group(as_list=True): consecutive blocks of world.g ranks
Groups == [k \in 0 .. ((world.n \div world.g) - 1) |->
              [j \in 1 .. world.g |-> k * world.g + j - 1]]

GroupOf(r) == r \div world.g

\* _get_my_group_info: (index of the rank in its group, size of the group)
GetMyGroupInfo(r) ==
    LET grp == Groups[GroupOf(r)]
    IN  [index |-> (CHOOSE j \in 1 .. Len(grp) : grp[j] = r) - 1, size |-> Len(grp)]

\* ------------------------------------------------------------- save plan
TensorFile(key, i) == [kind |-> "tensor", key |-> key, tid |-> i]

StateFile(key) == [kind |-> "state", key |-> key, tid |-> -1]

InfoFile(key) == [kind |-> "info", key |-> key, tid |-> -1]

SchedFile == [kind |-> "sched", key |-> -1, tid |-> -1]

\* a split in which every rank of a group takes the tensors of bin 0
MyTensorsOfFirstBin(r) ==
    SeqToSet(AssignTensorsToBins(tensors, GetMyGroupInfo(r).size)[0])

\* convert_fn of _xser_save_data: the tensors this rank hands to add_save_task
MyTensors(r) ==
    LET me == GetMyGroupInfo(r)
    IN  SeqToSet(AssignTensorsToBins(tensors, me.size)[me.index])

\* convert_fn of _xser_save_data: the _InternalTensorReference(i, shape, dtype) that
\* replaces tensor i in the structure, on every rank
RewrittenTensors(r) ==
    [i \in 1 .. Len(tensors) |->
        [tid |-> i - 1, shape |-> tensors[i].numel, dtype |-> tensors[i].esize]]

RECURSIVE TensorTasks(_, _, _)
TensorTasks(r, i, mine) ==
    IF i >= Len(tensors) THEN <<>>
    ELSE (IF i \in mine THEN <<TensorFile(GroupOf(r), i)>> ELSE <<>>)
         \o TensorTasks(r, i + 1, mine)

\* a _save in which every rank adds the structure payload and the side table
SaveModelTasksOnEveryRank(r) ==
    TensorTasks(r, 0, MyTensors(r)) \o <<StateFile(GroupOf(r)), InfoFile(GroupOf(r))>>

\* _save with use_xser: tensor files, then on the group's index-0 rank the
\* structure payload and the side table
SaveModelTasks(r) ==
    TensorTasks(r, 0, MyTensors(r))
    \o (IF GetMyGroupInfo(r).index = 0
        THEN <<StateFile(GroupOf(r)), InfoFile(GroupOf(r))>>
        ELSE <<>>)

\* save_checkpoint: the add_save_task calls of one rank, in order
SavePlan(r) ==
    (IF withModel THEN SaveModelTasks(r) ELSE <<>>)
    \o (IF withSched /\ r = 0 THEN <<SchedFile>> ELSE <<>>)

\* ------------------------------------------------------------- paths
\* a path or tag name is the sequence of its characters
\* an add_save_task whose assertion is switched off
AlwaysStartsWith(s, prefix) == TRUE

\* str.startswith
RECURSIVE StartsWith(_, _)
StartsWith(s, prefix) ==
    IF prefix = <<>> THEN TRUE
    ELSE IF s = <<>> THEN FALSE
    ELSE Head(s) = Head(prefix) /\ StartsWith(Tail(s), Tail(prefix))

\* add_save_task: `filename.startswith(self._current_tag + "/")`
UnderCurrentTag(filename, tag) == StartsWith(filename, tag \o <<"/">>)

\* add_save_task: `filename[len(self._current_tag) + 1 :]`
RelativeFilename(filename, tag) == SubSeq(filename, Len(tag) + 2, Len(filename))

\* ------------------------------------------------------------- load
\* a selection from the listing of all tags instead of the completed ones
LoadSelectAnyTag(ck, dn) ==
    LET tags == ListCheckpointTags(ck)
    IN  IF Len(tags) = 0 THEN [st |-> "error", tag |-> 0]
        ELSE [st |-> "ok", tag |-> tags[Len(tags)]]

\* load_checkpoint(tag=None): raise without a completed tag, else tags[-1]
LoadSelectTag(ck, dn) ==
    LET tags == ListCompletedCheckpointTags(dn)
    IN  IF Len(tags) = 0 THEN [st |-> "error", tag |-> 0]
        ELSE [st |-> "ok", tag |-> tags[Len(tags)]]


\* ------------------------------------------------------------- replicated load
\* a round robin that sends every tensor to the group's index-0 rank
ReaderAlwaysFirst(tid, size) == 0

\* _xser_load_data: `t.tid % my_group_size`, the rank-in-group that reads tensor tid
ReaderIndex(tid, size) == tid % size

\* a load in which every rank reads every tensor from disk
ReadsAlways(r, tid) == TRUE

\* _xser_load_data: `(t.tid % my_group_size) == my_rank_in_group`
ReadsFromDisk(r, tid) ==
    LET me == GetMyGroupInfo(r)
    IN  ReaderIndex(tid, me.size) = me.index

\* checkpoint_dir.load_object(tensor_file): the ranks of a group share the path
DiskValue(r, tid) == ldDisk[GroupOf(r)][tid + 1]

\* what rank r hands to all_reduce for tensor tid: the loaded tensor or torch.zeros
Contribution(r, tid) == IF ReadsFromDisk(r, tid) THEN DiskValue(r, tid) ELSE 0

\* xm.all_reduce(xm.REDUCE_SUM, [loaded], groups=groups) over the ranks of group k
GroupSum(k) == SumSeq([j \in 1 .. Len(Groups[k]) |-> loader[Groups[k][j]].buf])
\* ------------------------------------------------------------- lifecycle: state
NoTask == [st |-> "none", items |-> <<>>, held |-> FALSE]

\* no removal future: the files of a removal task are a set
NoRemoveTask == [st |-> "none", items |-> {}, held |-> FALSE]

NoLoad == [st |-> "none", tag |-> 0]

NoPack == [tensors |-> <<>>, bins |-> 0]

Worlds == {w \in [n : 1 .. MaxRanks, g : 1 .. MaxRanks] : w.n % w.g = 0}

KeepCounts == {<<>>} \cup {<<k>> : k \in -1 .. MaxKeep}

\* a model of k tensors, tensor i holding i+1 one-byte elements
ModelOf(k) == [i \in 1 .. k |-> [numel |-> i, esize |-> 1]]

\* the end-to-end scenario: 4 ranks in groups [[0,1],[2,3]], tensors of 10, 20 and 30
\* bytes, keep count 2, 3 save cycles
Scenario ==
    [world |-> [n |-> 4, g |-> 2],
     tensors |-> <<[numel |-> 10, esize |-> 1], [numel |-> 20, esize |-> 1],
                   [numel |-> 30, esize |-> 1]>>,
     keep |-> <<2>>,
     cycles |-> 3]

\* every rank right after its process started: no CheckpointIOState yet
InitRanks(w) ==
    /\ pc = [r \in 0 .. (w.n - 1) |-> "idle"]
    /\ ret = [r \in 0 .. (w.n - 1) |-> "idle"]
    /\ argTag = [r \in 0 .. (w.n - 1) |-> 0]
    /\ asyncRemove = [r \in 0 .. (w.n - 1) |-> FALSE]
    /\ curTag = [r \in 0 .. (w.n - 1) |-> 0]
    /\ relNames = [r \in 0 .. (w.n - 1) |-> {}]
    /\ todo = [r \in 0 .. (w.n - 1) |-> <<>>]
    /\ saveItems = [r \in 0 .. (w.n - 1) |-> <<>>]
    /\ saveTask = [r \in 0 .. (w.n - 1) |-> NoTask]
    /\ removeTask = [r \in 0 .. (w.n - 1) |-> NoRemoveTask]
    /\ removeTagsF = [r \in 0 .. (w.n - 1) |-> <<>>]
    /\ numKeptF = [r \in 0 .. (w.n - 1) |-> <<>>]
    /\ rmTags = [r \in 0 .. (w.n - 1) |-> <<>>]
    /\ rmScan = [r \in 0 .. (w.n - 1) |-> <<>>]
    /\ rmLeft = [r \in 0 .. (w.n - 1) |-> <<>>]
    /\ rmFiles = [r \in 0 .. (w.n - 1) |-> {}]
    /\ ncalls = [r \in 0 .. (w.n - 1) |-> 0]
    /\ raised = [r \in 0 .. (w.n - 1) |-> FALSE]
    /\ script = <<>>
    /\ crashes = 0
    /\ loadSel = NoLoad

InitStorage ==
    /\ ckpt = {}
    /\ done = {}
    /\ dirs = {}
    /\ files = {}
    /\ everDone = {}
    /\ killed = {}

NoPacking ==
    /\ binIn = NoPack
    /\ binOut = <<>>

NoLoading ==
    /\ ldDisk = <<>>
    /\ ldInfo = FALSE
    /\ loader = <<>>

\* a training run on an empty output directory
Init ==
    /\ world \in Worlds
    /\ asyncSave \in BOOLEAN
    /\ numKept \in {K \in KeepCounts : K # <<-1>>}
    /\ tagLimit = MaxTags
    /\ explicitTags = <<>>
    /\ tensors \in {ModelOf(k) : k \in 0 .. MaxTensors}
    /\ withSched = FALSE
    /\ withModel = TRUE
    /\ finalizeLimit = MaxFinalize
    /\ InitStorage
    /\ InitRanks(world)
    /\ nextTag = [r \in Ranks |-> 1]
    /\ NoPacking
    /\ NoLoading

\* the end-to-end scenario, synchronous or asynchronous
InitScenario ==
    /\ world = Scenario.world
    /\ asyncSave \in BOOLEAN
    /\ numKept = Scenario.keep
    /\ tagLimit = Scenario.cycles
    /\ explicitTags = <<>>
    /\ tensors = Scenario.tensors
    /\ withSched = FALSE
    /\ withModel = TRUE
    /\ finalizeLimit = MaxFinalize
    /\ InitStorage
    /\ InitRanks(world)
    /\ nextTag = [r \in Ranks |-> 1]
    /\ NoPacking
    /\ NoLoading

\* the k-th call of every rank is the same call
FollowsScript(r, call) ==
    LET k == ncalls[r] + 1
    IN  \/ k <= Len(script) /\ script[k] = call /\ script' = script
        \/ k = Len(script) + 1 /\ script' = Append(script, call)

Finalizes == Cardinality({k \in 1 .. Len(script) : script[k] = "final"})

\* the payload files the ranks write under a tag
PayloadOf(tag) == {<<tag, f>> : f \in UNION {SeqToSet(SavePlan(r)) : r \in Ranks}}

\* ------------------------------------------------------------- barriers
BarrierPcs == {"e_b1", "e_b2", "ws_b1", "ws_b2", "wr_b1", "wr_b2", "sr_b1", "sr_b2"}

\* the name handed to xm.rendezvous at each barrier position
BarrierName(p) ==
    CASE p = "e_b1" -> "saving checkpoint done"
      [] p \in {"e_b2", "ws_b2"} -> "mark checkpoint as done"
      [] p = "ws_b1" -> "async saving checkpoint done"
      [] p = "sr_b1" -> "determine remove tags done"
      [] p \in {"sr_b2", "wr_b1"} -> "remove files done"
      [] p = "wr_b2" -> "Wait for all workers to come from deletion"
      [] OTHER -> "none"

\* every rank waits at a barrier of the same name
AllArrived == \A r \in Ranks : pc[r] \in BarrierPcs /\ BarrierName(pc[r]) = BarrierName(pc[0])

\* remove_filenames of submit_remove: remove_tags x _relative_filenames. The inner loop
\* iterates a set, so the order of the names of one tag is open: the result is a set
CrossFiles(tags, rels) == {<<tags[i], f>> : i \in 1 .. Len(tags), f \in rels}

\* a file list that names the rank's files under every tag of the listing
RemoveFilenamesOfEveryTag(r, tags) == CrossFiles(ListCheckpointTags(ckpt), relNames[r])

\* submit_remove: remove_filenames, the rank's written paths under every tag of remove_tags
RemoveFilenames(r, tags) == CrossFiles(tags, relNames[r])

\* the files remove_files may delete next: remove_filenames lists the tags in the order of
\* remove_tags (oldest first) and, under each tag, the names in the iteration order of the
\* set _relative_filenames, which may be any order
NextFilenames(S) == {f \in S : \A g \in S : f[1] <= g[1]}

\* ------------------------------------------------------------- lifecycle: steps
\* self._checkpoint_dir is missing (synchronous state) or None (asynchronous state): the
\* process has not called begin() since it started. begin() binds the storage and, with
\* no cycle to drain, records the tag right after, so the two go together
Unbound(r) == curTag[r] = 0

\* whether the call the rank is in is a direct call of begin(), outside save_checkpoint
DirectBegin(r) ==
    /\ ncalls[r] >= 1
    /\ ncalls[r] <= Len(script)
    /\ script[ncalls[r]] = "begin"

\* where begin() returns to: its direct caller, or save_checkpoint, which goes on to save
AfterBegin(r) == IF DirectBegin(r) THEN "idle" ELSE "save"

\* the add_save_task calls that follow begin(): those of save_checkpoint, none after a
\* direct call
BeginTodo(r) == IF DirectBegin(r) THEN <<>> ELSE SavePlan(r)

\* a begin() that never drains the previous cycle
BeginNeverDrains(r) == FALSE

\* begin(): `if self._async_save and self._current_tag is not None`
BeginDrains(r) == asyncSave /\ curTag[r] # 0

\* an end() that hands nothing to the background runner
SubmitNothing(r) == saveTask[r]

\* end(), asynchronous: `if len(self._save_items) > 0: self._save_task = submit(...)`
SubmitSave(r) ==
    IF Len(saveItems[r]) > 0
    THEN [st |-> "run", items |-> saveItems[r], held |-> TRUE]
    ELSE saveTask[r]

\* a synchronous end() without its barriers: rank 0 goes on to write `done`, the other
\* ranks go on to the retention pass
EndSkipsBarriers(r) == IF r = 0 THEN "e_done" ELSE "sr_scan"

\* end(), synchronous: the first statement is the barrier "saving checkpoint done"
EndFirstStep(r) == "e_b1"

\* a wait_save that does not wait for its save task
SaveTaskNotWaited(r) == TRUE

\* wait_save: concurrent.futures.wait([self._save_task]) returns once the task is over
SaveTaskWaited(r) == saveTask[r].st # "run"

\* a wait_remove that does not wait for its removal task
RemoveTaskNotWaited(r) == TRUE

\* wait_remove: concurrent.futures.wait([self._remove_task]) returns once the task is over
RemoveTaskWaited(r) == removeTask[r].st # "run"

\* wait_remove: `if f.exception(): raise f.exception()`
RemoveTaskFailed(r) == removeTask[r].st = "err"

\* a wait_save that ignores the exception of its save task
SaveTaskFailureIgnored(r) == FALSE

\* wait_save: `if f.exception(): raise f.exception()`
SaveTaskFailed(r) == saveTask[r].st = "err"

\* `self._save_task = None` / `self._remove_task = None`: the attribute lets go of the
\* future; a future that is still running keeps running
Released(task) ==
    IF task.st \in {"run", "err"} THEN [task EXCEPT !.held = FALSE]
    ELSE [st |-> "none", items |-> task.items, held |-> FALSE]

\* the background runner took one item of a task off its list
Advanced(task) ==
    IF Tail(task.items) # <<>> THEN [task EXCEPT !.items = Tail(@)]
    ELSE IF task.held THEN [st |-> "ok", items |-> <<>>, held |-> TRUE]
    ELSE NoTask

\* remove_files on the background runner deleted file f of a removal task
Deleted(task, f) ==
    IF task.items \ {f} # {} THEN [task EXCEPT !.items = @ \ {f}]
    ELSE IF task.held THEN [st |-> "ok", items |-> {}, held |-> TRUE]
    ELSE NoRemoveTask

\* whether the call the rank is in is a direct call of submit_remove
DirectRemove(r) ==
    /\ ncalls[r] >= 1
    /\ ncalls[r] <= Len(script)
    /\ script[ncalls[r]] \in {"remove_sync", "remove_async"}

\* a retention pass that is never handed a keep count
KeepArgNone(r) == <<>>

\* the num_kept handed to submit_remove: the argument of a direct call and of the
\* synchronous end(), self._num_kept in wait_save
KeepArg(r) == IF asyncSave /\ ~DirectRemove(r) THEN numKeptF[r] ELSE numKept

\* a pass in which rank 0 finds nothing to remove, whatever the other ranks find
RemoveTagsArgEmptyOnRankZero(r) ==
    IF r = 0 THEN <<>> ELSE DetermineRemoveTags(ckpt, done, KeepArg(r))

\* submit_remove: `remove_tags if len(remove_tags) else _determine_remove_tags(...)`
RemoveTagsArg(r) ==
    IF Len(explicitTags) > 0 THEN explicitTags
    ELSE DetermineRemoveTags(ckpt, done, KeepArg(r))

\* a remove_dirs that is handed only the tags whose done marker the pass found
RemoveDirsArgCompletedOnly(r) == FilterSeq(rmTags[r], SeqToSet(rmScan[r]))

\* submit_remove, synchronous: `self._checkpoint_dir.remove_dirs(remove_tags)`
RemoveDirsArg(r) == rmTags[r]

\* whether the running call returns right after the barrier the rank waits at
ReturnsAfterBarrier(r) ==
    \/ pc[r] = "sr_b1" /\ rmTags[r] = <<>>
    \/ pc[r] = "sr_b2" /\ r # 0
    \/ pc[r] = "wr_b2" /\ ret[r] = "wr_ret"

\* the statement that follows each barrier
AfterBarrier(r) ==
    CASE pc[r] = "e_b1" -> IF r = 0 THEN "e_done" ELSE "e_b2"
      [] pc[r] = "e_b2" -> "sr_scan"
      [] pc[r] = "ws_b1" -> IF r = 0 THEN "ws_mark" ELSE "ws_b2"
      [] pc[r] = "ws_b2" -> IF removeTask[r].held THEN "wr_wait" ELSE "wr_b2"
      [] pc[r] = "wr_b1" -> IF r = 0 THEN "wr_dirs" ELSE "wr_b2"
      [] pc[r] = "wr_b2" -> IF ret[r] = "wr_ret" THEN "idle" ELSE "sr_scan"
      [] pc[r] = "sr_b1" -> IF rmTags[r] = <<>> THEN ret[r]
                            ELSE IF r = 0 THEN "sr_clear" ELSE "sr_files"
      [] pc[r] = "sr_b2" -> IF r = 0 THEN "sr_dirs" ELSE ret[r]
      [] OTHER -> pc[r]

\* the newest tag any rank has begun
LastTag == (CHOOSE m \in {nextTag[r] : r \in Ranks} : \A r \in Ranks : nextTag[r] <= m) - 1

\* save_checkpoint(tag) entering begin(): an asynchronous state with a previous tag
\* drains that cycle first (wait_save(async_remove=True))
CallSave(r) ==
    /\ pc[r] = "idle"
    /\ nextTag[r] <= tagLimit
    /\ FollowsScript(r, "save")
    /\ ncalls' = [ncalls EXCEPT ![r] = @ + 1]
    /\ argTag' = [argTag EXCEPT ![r] = nextTag[r]]
    /\ nextTag' = [nextTag EXCEPT ![r] = @ + 1]
    /\ IF BeginDrains(r)
       THEN /\ pc' = [pc EXCEPT ![r] = "ws_wait"]
            /\ asyncRemove' = [asyncRemove EXCEPT ![r] = TRUE]
            /\ ret' = [ret EXCEPT ![r] = "begin"]
       ELSE /\ pc' = [pc EXCEPT ![r] = "begin"]
            /\ UNCHANGED <<asyncRemove, ret>>
    /\ UNCHANGED <<world, asyncSave, numKept, tagLimit, explicitTags, tensors, withSched,
                 withModel, finalizeLimit, ckpt, done, dirs, files, curTag, relNames, todo,
                 saveItems, saveTask, removeTask, removeTagsF, numKeptF, rmTags, rmScan,
                 rmLeft, rmFiles, crashes, raised, everDone, killed, loadSel, binIn, binOut,
                 ldDisk, ldInfo, loader>>

\* begin() after the drain: bind the storage and record the tag; rank 0 creates the tag
\* directory, the other ranks reach create_shared_dir of _xser_save_data when save_checkpoint
\* has a model
Begin(r) ==
    /\ pc[r] = "begin"
    /\ curTag' = [curTag EXCEPT ![r] = argTag[r]]
    /\ dirs' = IF r = 0 \/ (withModel /\ ~DirectBegin(r)) THEN dirs \cup {argTag[r]} ELSE dirs
    /\ IF r = 0
       THEN /\ pc' = [pc EXCEPT ![r] = "begin_mark"]
            /\ UNCHANGED todo
       ELSE /\ pc' = [pc EXCEPT ![r] = AfterBegin(r)]
            /\ todo' = [todo EXCEPT ![r] = BeginTodo(r)]
    /\ UNCHANGED <<world, asyncSave, numKept, tagLimit, explicitTags, tensors, withSched,
                 withModel, finalizeLimit, ckpt, done, files, ret, argTag, asyncRemove,
                 relNames, saveItems, saveTask, removeTask, removeTagsF, numKeptF, rmTags,
                 rmScan, rmLeft, rmFiles, ncalls, script, nextTag, crashes, raised, everDone,
                 killed, loadSel, binIn, binOut, ldDisk, ldInfo, loader>>

\* begin() on rank 0: write the `checkpoint` marker
BeginMark(r) ==
    /\ pc[r] = "begin_mark"
    /\ ckpt' = ckpt \cup {curTag[r]}
    /\ pc' = [pc EXCEPT ![r] = AfterBegin(r)]
    /\ todo' = [todo EXCEPT ![r] = BeginTodo(r)]
    /\ UNCHANGED <<world, asyncSave, numKept, tagLimit, explicitTags, tensors, withSched,
                 withModel, finalizeLimit, done, dirs, files, ret, argTag, asyncRemove,
                 curTag, relNames, saveItems, saveTask, removeTask, removeTagsF, numKeptF,
                 rmTags, rmScan, rmLeft, rmFiles, ncalls, script, nextTag, crashes, raised,
                 everDone, killed, loadSel, binIn, binOut, ldDisk, ldInfo, loader>>

\* add_save_task: record the relative name; queue the item (asynchronous) or write it
AddSaveTask(r) ==
    /\ pc[r] = "save"
    /\ todo[r] # <<>>
    /\ relNames' = [relNames EXCEPT ![r] = @ \cup {Head(todo[r])}]
    /\ todo' = [todo EXCEPT ![r] = Tail(@)]
    /\ IF asyncSave
       THEN /\ saveItems' = [saveItems EXCEPT ![r] = Append(@, <<curTag[r], Head(todo[r])>>)]
            /\ UNCHANGED files
       ELSE /\ files' = files \cup {<<curTag[r], Head(todo[r])>>}
            /\ UNCHANGED saveItems
    /\ UNCHANGED <<world, asyncSave, numKept, tagLimit, explicitTags, tensors, withSched,
                 withModel, finalizeLimit, ckpt, done, dirs, pc, ret, argTag, asyncRemove,
                 curTag, saveTask, removeTask, removeTagsF, numKeptF, rmTags, rmScan, rmLeft,
                 rmFiles, ncalls, script, nextTag, crashes, raised, everDone, killed,
                 loadSel, binIn, binOut, ldDisk, ldInfo, loader>>

\* end(num_kept): asynchronous: hand the queue to the background runner and return;
\* synchronous: go to the barrier "saving checkpoint done"
End(r) ==
    /\ pc[r] = "save"
    /\ todo[r] = <<>>
    /\ IF asyncSave
       THEN /\ numKeptF' = [numKeptF EXCEPT ![r] = numKept]
            /\ saveTask' = [saveTask EXCEPT ![r] = SubmitSave(r)]
            /\ pc' = [pc EXCEPT ![r] = "idle"]
            /\ UNCHANGED <<asyncRemove, ret>>
       ELSE /\ pc' = [pc EXCEPT ![r] = EndFirstStep(r)]
            /\ asyncRemove' = [asyncRemove EXCEPT ![r] = FALSE]
            /\ ret' = [ret EXCEPT ![r] = "idle"]
            /\ UNCHANGED <<numKeptF, saveTask>>
    /\ UNCHANGED <<world, asyncSave, numKept, tagLimit, explicitTags, tensors, withSched,
                 withModel, finalizeLimit, ckpt, done, dirs, files, argTag, curTag, relNames,
                 todo, saveItems, removeTask, removeTagsF, rmTags, rmScan, rmLeft, rmFiles,
                 ncalls, script, nextTag, crashes, raised, everDone, killed, loadSel, binIn,
                 binOut, ldDisk, ldInfo, loader>>

\* xm.rendezvous: all ranks leave the barrier together, each to the statement after it
Rendezvous ==
    /\ AllArrived
    /\ pc' = [r \in Ranks |-> AfterBarrier(r)]
    /\ saveTask' = [r \in Ranks |->
                      IF pc[r] = "ws_b1" /\ r # 0 /\ saveTask[r].held
                      THEN Released(saveTask[r]) ELSE saveTask[r]]
    /\ saveItems' = [r \in Ranks |->
                       IF pc[r] = "ws_b1" /\ r # 0 /\ saveTask[r].held
                       THEN <<>> ELSE saveItems[r]]
    /\ removeTask' = [r \in Ranks |->
                        IF pc[r] = "wr_b1" /\ r # 0 THEN Released(removeTask[r])
                        ELSE removeTask[r]]
    /\ removeTagsF' = [r \in Ranks |-> IF pc[r] = "wr_b1" /\ r # 0 THEN <<>> ELSE removeTagsF[r]]
    /\ rmLeft' = [r \in Ranks |->
                    CASE pc[r] = "wr_b1" /\ r = 0 -> removeTagsF[r]
                      [] pc[r] = "sr_b1" /\ rmTags[r] # <<>> /\ r = 0 -> rmTags[r]
                      [] pc[r] = "sr_b2" /\ r = 0 -> RemoveDirsArg(r)
                      [] OTHER -> rmLeft[r]]
    /\ rmFiles' = [r \in Ranks |->
                     IF pc[r] = "sr_b1" /\ rmTags[r] # <<>> /\ r # 0
                     THEN RemoveFilenames(r, rmTags[r]) ELSE rmFiles[r]]
    /\ rmTags' = [r \in Ranks |-> IF ReturnsAfterBarrier(r) THEN <<>> ELSE rmTags[r]]
    /\ rmScan' = [r \in Ranks |-> IF ReturnsAfterBarrier(r) THEN <<>> ELSE rmScan[r]]
    /\ ret' = [r \in Ranks |-> IF ReturnsAfterBarrier(r) THEN "idle" ELSE ret[r]]
    /\ asyncRemove' = [r \in Ranks |-> IF ReturnsAfterBarrier(r) THEN FALSE ELSE asyncRemove[r]]
    /\ UNCHANGED <<world, asyncSave, numKept, tagLimit, explicitTags, tensors, withSched,
                 withModel, finalizeLimit, ckpt, done, dirs, files, argTag, curTag, relNames,
                 todo, numKeptF, ncalls, script, nextTag, crashes, raised, everDone, killed,
                 loadSel, binIn, binOut, ldDisk, ldInfo, loader>>

\* end() on rank 0, synchronous: write the `done` marker of the current tag
EndDone(r) ==
    /\ pc[r] = "e_done"
    /\ done' = done \cup {curTag[r]}
    /\ everDone' = everDone \cup {curTag[r]}
    /\ pc' = [pc EXCEPT ![r] = "e_b2"]
    /\ UNCHANGED <<world, asyncSave, numKept, tagLimit, explicitTags, tensors, withSched,
                 withModel, finalizeLimit, ckpt, dirs, files, ret, argTag, asyncRemove,
                 curTag, relNames, todo, saveItems, saveTask, removeTask, removeTagsF,
                 numKeptF, rmTags, rmScan, rmLeft, rmFiles, ncalls, script, nextTag, crashes,
                 raised, killed, loadSel, binIn, binOut, ldDisk, ldInfo, loader>>

\* wait_save: wait for the save task; its failure is raised here, before any barrier
WaitSave(r) ==
    /\ pc[r] = "ws_wait"
    /\ saveTask[r].held => SaveTaskWaited(r)
    /\ IF saveTask[r].held /\ SaveTaskFailed(r)
       THEN /\ raised' = [raised EXCEPT ![r] = TRUE]
            /\ pc' = [pc EXCEPT ![r] = "idle"]
            /\ ret' = [ret EXCEPT ![r] = "idle"]
            /\ asyncRemove' = [asyncRemove EXCEPT ![r] = FALSE]
       ELSE /\ pc' = [pc EXCEPT ![r] = "ws_b1"]
            /\ UNCHANGED <<raised, ret, asyncRemove>>
    /\ UNCHANGED <<world, asyncSave, numKept, tagLimit, explicitTags, tensors, withSched,
                 withModel, finalizeLimit, ckpt, done, dirs, files, argTag, curTag, relNames,
                 todo, saveItems, saveTask, removeTask, removeTagsF, numKeptF, rmTags,
                 rmScan, rmLeft, rmFiles, ncalls, script, nextTag, crashes, everDone, killed,
                 loadSel, binIn, binOut, ldDisk, ldInfo, loader>>

\* wait_save on rank 0 between its two barriers: clear the save task and write `done`
WsMark(r) ==
    /\ pc[r] = "ws_mark"
    /\ IF saveTask[r].held
       THEN /\ saveTask' = [saveTask EXCEPT ![r] = Released(@)]
            /\ saveItems' = [saveItems EXCEPT ![r] = <<>>]
            /\ done' = done \cup {curTag[r]}
            /\ everDone' = everDone \cup {curTag[r]}
       ELSE UNCHANGED <<saveTask, saveItems, done, everDone>>
    /\ pc' = [pc EXCEPT ![r] = "ws_b2"]
    /\ UNCHANGED <<world, asyncSave, numKept, tagLimit, explicitTags, tensors, withSched,
                 withModel, finalizeLimit, ckpt, dirs, files, ret, argTag, asyncRemove,
                 curTag, relNames, todo, removeTask, removeTagsF, numKeptF, rmTags, rmScan,
                 rmLeft, rmFiles, ncalls, script, nextTag, crashes, raised, killed, loadSel,
                 binIn, binOut, ldDisk, ldInfo, loader>>

\* wait_remove: wait for the removal task; its failure is raised here and _remove_task
\* stays set; otherwise go to the barrier "remove files done"
WaitRemove(r) ==
    /\ pc[r] = "wr_wait"
    /\ RemoveTaskWaited(r)
    /\ IF RemoveTaskFailed(r)
       THEN /\ raised' = [raised EXCEPT ![r] = TRUE]
            /\ pc' = [pc EXCEPT ![r] = "idle"]
            /\ ret' = [ret EXCEPT ![r] = "idle"]
            /\ asyncRemove' = [asyncRemove EXCEPT ![r] = FALSE]
       ELSE /\ pc' = [pc EXCEPT ![r] = "wr_b1"]
            /\ UNCHANGED <<raised, ret, asyncRemove>>
    /\ UNCHANGED <<world, asyncSave, numKept, tagLimit, explicitTags, tensors, withSched,
                 withModel, finalizeLimit, ckpt, done, dirs, files, argTag, curTag, relNames,
                 todo, saveItems, saveTask, removeTask, removeTagsF, numKeptF, rmTags,
                 rmScan, rmLeft, rmFiles, ncalls, script, nextTag, crashes, everDone, killed,
                 loadSel, binIn, binOut, ldDisk, ldInfo, loader>>

\* wait_remove on rank 0: remove_dirs(_remove_tags), one tag a step, then clear the task
WrDirs(r) ==
    /\ pc[r] = "wr_dirs"
    /\ rmLeft[r] # <<>>
    /\ dirs' = dirs \ {Head(rmLeft[r])}
    /\ ckpt' = ckpt \ {Head(rmLeft[r])}
    /\ done' = done \ {Head(rmLeft[r])}
    /\ files' = FilesOutsideTag(files, Head(rmLeft[r]))
    /\ rmLeft' = [rmLeft EXCEPT ![r] = Tail(@)]
    /\ IF Tail(rmLeft[r]) = <<>>
       THEN /\ removeTagsF' = [removeTagsF EXCEPT ![r] = <<>>]
            /\ removeTask' = [removeTask EXCEPT ![r] = Released(@)]
            /\ pc' = [pc EXCEPT ![r] = "wr_b2"]
       ELSE UNCHANGED <<removeTagsF, removeTask, pc>>
    /\ UNCHANGED <<world, asyncSave, numKept, tagLimit, explicitTags, tensors, withSched,
                 withModel, finalizeLimit, ret, argTag, asyncRemove, curTag, relNames, todo,
                 saveItems, saveTask, numKeptF, rmTags, rmScan, rmFiles, ncalls, script,
                 nextTag, crashes, raised, everDone, killed, loadSel, binIn, binOut, ldDisk,
                 ldInfo, loader>>

\* submit_remove: _determine_remove_tags reads the listing and the `done` markers
Scan(r) ==
    /\ pc[r] = "sr_scan"
    /\ Unbound(r) => Len(explicitTags) > 0
    /\ rmTags' = [rmTags EXCEPT ![r] = RemoveTagsArg(r)]
    /\ rmScan' = [rmScan EXCEPT ![r] =
                     ClassifyTags(ListCheckpointTags(ckpt), done, <<>>, <<>>).completed]
    /\ pc' = [pc EXCEPT ![r] = "sr_b1"]
    /\ UNCHANGED <<world, asyncSave, numKept, tagLimit, explicitTags, tensors, withSched,
                 withModel, finalizeLimit, ckpt, done, dirs, files, ret, argTag, asyncRemove,
                 curTag, relNames, todo, saveItems, saveTask, removeTask, removeTagsF,
                 numKeptF, rmLeft, rmFiles, ncalls, script, nextTag, crashes, raised,
                 everDone, killed, loadSel, binIn, binOut, ldDisk, ldInfo, loader>>

\* submit_remove on rank 0: remove the `done` marker of the next tag of remove_tags
\* if it exists; after the last tag go on to the file list
ClearDone(r) ==
    /\ pc[r] = "sr_clear"
    /\ ~Unbound(r)
    /\ rmLeft[r] # <<>>
    /\ done' = IF DoneExists(done, Head(rmLeft[r])) THEN done \ {Head(rmLeft[r])} ELSE done
    /\ rmLeft' = [rmLeft EXCEPT ![r] = Tail(@)]
    /\ IF Tail(rmLeft[r]) = <<>>
       THEN /\ rmFiles' = [rmFiles EXCEPT ![r] = RemoveFilenames(r, rmTags[r])]
            /\ pc' = [pc EXCEPT ![r] = "sr_files"]
       ELSE UNCHANGED <<rmFiles, pc>>
    /\ UNCHANGED <<world, asyncSave, numKept, tagLimit, explicitTags, tensors, withSched,
                 withModel, finalizeLimit, ckpt, dirs, files, ret, argTag, asyncRemove,
                 curTag, relNames, todo, saveItems, saveTask, removeTask, removeTagsF,
                 numKeptF, rmTags, rmScan, ncalls, script, nextTag, crashes, raised,
                 everDone, killed, loadSel, binIn, binOut, ldDisk, ldInfo, loader>>

\* submit_remove with async_remove: hand remove_files to the background runner, return
SubmitRemoveTask(r) ==
    /\ pc[r] = "sr_files"
    /\ ~Unbound(r)
    /\ asyncRemove[r]
    /\ removeTagsF' = [removeTagsF EXCEPT ![r] = rmTags[r]]
    /\ removeTask' = [removeTask EXCEPT ![r] =
                        [st |-> "run", items |-> rmFiles[r], held |-> TRUE]]
    /\ pc' = [pc EXCEPT ![r] = ret[r]]
    /\ ret' = [ret EXCEPT ![r] = "idle"]
    /\ asyncRemove' = [asyncRemove EXCEPT ![r] = FALSE]
    /\ rmTags' = [rmTags EXCEPT ![r] = <<>>]
    /\ rmScan' = [rmScan EXCEPT ![r] = <<>>]
    /\ rmFiles' = [rmFiles EXCEPT ![r] = {}]
    /\ UNCHANGED <<world, asyncSave, numKept, tagLimit, explicitTags, tensors, withSched,
                 withModel, finalizeLimit, ckpt, done, dirs, files, argTag, curTag, relNames,
                 todo, saveItems, saveTask, numKeptF, rmLeft, ncalls, script, nextTag,
                 crashes, raised, everDone, killed, loadSel, binIn, binOut, ldDisk, ldInfo,
                 loader>>

\* submit_remove without async_remove: remove_files deletes the next file of the list
RemoveFile(r) ==
    /\ pc[r] = "sr_files"
    /\ ~Unbound(r)
    /\ ~asyncRemove[r]
    /\ \E f \in NextFilenames(rmFiles[r]) :
          /\ files' = RemoveFileFrom(files, f)
          /\ rmFiles' = [rmFiles EXCEPT ![r] = @ \ {f}]
    /\ UNCHANGED <<world, asyncSave, numKept, tagLimit, explicitTags, tensors, withSched,
                 withModel, finalizeLimit, ckpt, done, dirs, pc, ret, argTag, asyncRemove,
                 curTag, relNames, todo, saveItems, saveTask, removeTask, removeTagsF,
                 numKeptF, rmTags, rmScan, rmLeft, ncalls, script, nextTag, crashes, raised,
                 everDone, killed, loadSel, binIn, binOut, ldDisk, ldInfo, loader>>

\* submit_remove without async_remove: remove_files returned; barrier "remove files done"
RemoveFilesDone(r) ==
    /\ pc[r] = "sr_files"
    /\ ~Unbound(r)
    /\ ~asyncRemove[r]
    /\ rmFiles[r] = {}
    /\ pc' = [pc EXCEPT ![r] = "sr_b2"]
    /\ UNCHANGED <<world, asyncSave, numKept, tagLimit, explicitTags, tensors, withSched,
                 withModel, finalizeLimit, ckpt, done, dirs, files, ret, argTag, asyncRemove,
                 curTag, relNames, todo, saveItems, saveTask, removeTask, removeTagsF,
                 numKeptF, rmTags, rmScan, rmLeft, rmFiles, ncalls, script, nextTag, crashes,
                 raised, everDone, killed, loadSel, binIn, binOut, ldDisk, ldInfo, loader>>

\* submit_remove on rank 0: remove_dirs(remove_tags), one tag a step, then return
RemoveDirs(r) ==
    /\ pc[r] = "sr_dirs"
    /\ rmLeft[r] # <<>>
    /\ dirs' = dirs \ {Head(rmLeft[r])}
    /\ ckpt' = ckpt \ {Head(rmLeft[r])}
    /\ done' = done \ {Head(rmLeft[r])}
    /\ files' = FilesOutsideTag(files, Head(rmLeft[r]))
    /\ rmLeft' = [rmLeft EXCEPT ![r] = Tail(@)]
    /\ IF Tail(rmLeft[r]) = <<>>
       THEN /\ pc' = [pc EXCEPT ![r] = ret[r]]
            /\ ret' = [ret EXCEPT ![r] = "idle"]
            /\ asyncRemove' = [asyncRemove EXCEPT ![r] = FALSE]
            /\ rmTags' = [rmTags EXCEPT ![r] = <<>>]
            /\ rmScan' = [rmScan EXCEPT ![r] = <<>>]
       ELSE UNCHANGED <<pc, ret, asyncRemove, rmTags, rmScan>>
    /\ UNCHANGED <<world, asyncSave, numKept, tagLimit, explicitTags, tensors, withSched,
                 withModel, finalizeLimit, argTag, curTag, relNames, todo, saveItems,
                 saveTask, removeTask, removeTagsF, numKeptF, rmFiles, ncalls, script,
                 nextTag, crashes, raised, everDone, killed, loadSel, binIn, binOut, ldDisk,
                 ldInfo, loader>>

\* finalize_checkpoint / the exit hook: wait_all() = wait_save(async_remove=False), which
\* returns at once on a synchronous state
Finalize(r) ==
    /\ pc[r] = "idle"
    /\ curTag[r] # 0
    /\ Finalizes < finalizeLimit \/ ncalls[r] < Len(script)
    /\ FollowsScript(r, "final")
    /\ ncalls' = [ncalls EXCEPT ![r] = @ + 1]
    /\ IF asyncSave
       THEN /\ pc' = [pc EXCEPT ![r] = "ws_wait"]
            /\ asyncRemove' = [asyncRemove EXCEPT ![r] = FALSE]
            /\ ret' = [ret EXCEPT ![r] = "idle"]
       ELSE UNCHANGED <<pc, asyncRemove, ret>>
    /\ UNCHANGED <<world, asyncSave, numKept, tagLimit, explicitTags, tensors, withSched,
                 withModel, finalizeLimit, ckpt, done, dirs, files, argTag, curTag, relNames,
                 todo, saveItems, saveTask, removeTask, removeTagsF, numKeptF, rmTags,
                 rmScan, rmLeft, rmFiles, nextTag, crashes, raised, everDone, killed,
                 loadSel, binIn, binOut, ldDisk, ldInfo, loader>>

\* the background runner of rank r executes remove_files: one file a step
BgRemove(r) ==
    /\ removeTask[r].st = "run"
    /\ IF removeTask[r].items = {}
       THEN /\ removeTask' = [removeTask EXCEPT ![r].st = "ok"]
            /\ UNCHANGED files
       ELSE \E f \in NextFilenames(removeTask[r].items) :
               /\ files' = RemoveFileFrom(files, f)
               /\ removeTask' = [removeTask EXCEPT ![r] = Deleted(@, f)]
    /\ UNCHANGED <<world, asyncSave, numKept, tagLimit, explicitTags, tensors, withSched,
                 withModel, finalizeLimit, ckpt, done, dirs, pc, ret, argTag, asyncRemove,
                 curTag, relNames, todo, saveItems, saveTask, removeTagsF, numKeptF, rmTags,
                 rmScan, rmLeft, rmFiles, ncalls, script, nextTag, crashes, raised, everDone,
                 killed, loadSel, binIn, binOut, ldDisk, ldInfo, loader>>

\* remove_files of the background removal task raises (I/O error): the future holds it
BgRemoveFail(r) ==
    /\ removeTask[r].st = "run"
    /\ removeTask' = [removeTask EXCEPT ![r].st = "err"]
    /\ UNCHANGED <<world, asyncSave, numKept, tagLimit, explicitTags, tensors, withSched,
                 withModel, finalizeLimit, ckpt, done, dirs, files, pc, ret, argTag,
                 asyncRemove, curTag, relNames, todo, saveItems, saveTask, removeTagsF,
                 numKeptF, rmTags, rmScan, rmLeft, rmFiles, ncalls, script, nextTag, crashes,
                 raised, everDone, killed, loadSel, binIn, binOut, ldDisk, ldInfo, loader>>

\* the background runner of rank r executes _bulk_save: one save_object a step; the
\* runner has one worker, so the removal task submitted before it runs first
BgSave(r) ==
    /\ saveTask[r].st = "run"
    /\ removeTask[r].st # "run"
    /\ files' = files \cup {Head(saveTask[r].items)}
    /\ dirs' = dirs \cup {Head(saveTask[r].items)[1]}
    /\ saveTask' = [saveTask EXCEPT ![r] = Advanced(@)]
    /\ UNCHANGED <<world, asyncSave, numKept, tagLimit, explicitTags, tensors, withSched,
                 withModel, finalizeLimit, ckpt, done, pc, ret, argTag, asyncRemove, curTag,
                 relNames, todo, saveItems, removeTask, removeTagsF, numKeptF, rmTags,
                 rmScan, rmLeft, rmFiles, ncalls, script, nextTag, crashes, raised, everDone,
                 killed, loadSel, binIn, binOut, ldDisk, ldInfo, loader>>

\* a save_object of the background save task raises (I/O error): the future holds it
BgSaveFail(r) ==
    /\ saveTask[r].st = "run"
    /\ removeTask[r].st # "run"
    /\ saveTask' = [saveTask EXCEPT ![r].st = "err"]
    /\ UNCHANGED <<world, asyncSave, numKept, tagLimit, explicitTags, tensors, withSched,
                 withModel, finalizeLimit, ckpt, done, dirs, files, pc, ret, argTag,
                 asyncRemove, curTag, relNames, todo, saveItems, removeTask, removeTagsF,
                 numKeptF, rmTags, rmScan, rmLeft, rmFiles, ncalls, script, nextTag, crashes,
                 raised, everDone, killed, loadSel, binIn, binOut, ldDisk, ldInfo, loader>>

\* the process group is killed and restarted: storage stays, every CheckpointIOState is new,
\* training resumes with fresh tags
Crash ==
    /\ crashes < MaxCrashes
    /\ \E r \in Ranks : nextTag[r] > 1
    /\ crashes' = crashes + 1
    /\ pc' = [r \in Ranks |-> "idle"]
    /\ ret' = [r \in Ranks |-> "idle"]
    /\ argTag' = [r \in Ranks |-> 0]
    /\ asyncRemove' = [r \in Ranks |-> FALSE]
    /\ curTag' = [r \in Ranks |-> 0]
    /\ relNames' = [r \in Ranks |-> {}]
    /\ todo' = [r \in Ranks |-> <<>>]
    /\ saveItems' = [r \in Ranks |-> <<>>]
    /\ saveTask' = [r \in Ranks |-> NoTask]
    /\ removeTask' = [r \in Ranks |-> NoRemoveTask]
    /\ removeTagsF' = [r \in Ranks |-> <<>>]
    /\ numKeptF' = [r \in Ranks |-> <<>>]
    /\ rmTags' = [r \in Ranks |-> <<>>]
    /\ rmScan' = [r \in Ranks |-> <<>>]
    /\ rmLeft' = [r \in Ranks |-> <<>>]
    /\ rmFiles' = [r \in Ranks |-> {}]
    /\ ncalls' = [r \in Ranks |-> 0]
    /\ raised' = [r \in Ranks |-> FALSE]
    /\ nextTag' = [r \in Ranks |-> LastTag + 1]
    /\ killed' = killed \cup {t \in ckpt \ everDone : PayloadOf(t) \subseteq files}
    /\ script' = <<>>
    /\ loadSel' = NoLoad
    /\ UNCHANGED <<world, asyncSave, numKept, tagLimit, explicitTags, tensors, withSched,
                 withModel, finalizeLimit, ckpt, done, dirs, files, everDone, binIn, binOut,
                 ldDisk, ldInfo, loader>>

\* load_checkpoint(tag=None) at the start of a process: the tag it selects, or the error
LoadCheckpoint ==
    /\ \A r \in Ranks : pc[r] = "idle" /\ ncalls[r] = 0
    /\ loadSel = NoLoad
    /\ loadSel' = LoadSelectTag(ckpt, done)
    /\ UNCHANGED <<world, asyncSave, numKept, tagLimit, explicitTags, tensors, withSched,
                 withModel, finalizeLimit, ckpt, done, dirs, files, pc, ret, argTag,
                 asyncRemove, curTag, relNames, todo, saveItems, saveTask, removeTask,
                 removeTagsF, numKeptF, rmTags, rmScan, rmLeft, rmFiles, ncalls, script,
                 nextTag, crashes, raised, everDone, killed, binIn, binOut, ldDisk, ldInfo,
                 loader>>

\* a direct submit_remove(numKept, async_remove=a, remove_tags=explicitTags): the call is
\* recorded in the script, from which KeepArg takes the keep count of the pass; an
\* asynchronous removal is followed by wait_remove()
CallRemove(r, a) ==
    /\ pc[r] = "idle"
    /\ \A k \in 1 .. ncalls[r] : script[k] = "begin"
    /\ a => asyncSave
    /\ FollowsScript(r, IF a THEN "remove_async" ELSE "remove_sync")
    /\ ncalls' = [ncalls EXCEPT ![r] = @ + 1]
    /\ pc' = [pc EXCEPT ![r] = "sr_scan"]
    /\ asyncRemove' = [asyncRemove EXCEPT ![r] = a]
    /\ ret' = [ret EXCEPT ![r] = IF a THEN "wr_call" ELSE "idle"]
    /\ UNCHANGED <<world, asyncSave, numKept, tagLimit, explicitTags, tensors, withSched,
                 withModel, finalizeLimit, ckpt, done, dirs, files, argTag, curTag, relNames,
                 todo, saveItems, saveTask, removeTask, removeTagsF, numKeptF, rmTags,
                 rmScan, rmLeft, rmFiles, nextTag, crashes, raised, everDone, killed,
                 loadSel, binIn, binOut, ldDisk, ldInfo, loader>>

\* a direct begin(checkpoint_dir, tag) on the new CheckpointIOState of a restarted process,
\* with a fresh tag: there is no previous cycle to drain
CallBegin(r) ==
    /\ pc[r] = "idle"
    /\ Unbound(r)
    /\ ncalls[r] = 0
    /\ FollowsScript(r, "begin")
    /\ ncalls' = [ncalls EXCEPT ![r] = 1]
    /\ argTag' = [argTag EXCEPT ![r] = nextTag[r]]
    /\ nextTag' = [nextTag EXCEPT ![r] = @ + 1]
    /\ pc' = [pc EXCEPT ![r] = "begin"]
    /\ UNCHANGED <<world, asyncSave, numKept, tagLimit, explicitTags, tensors, withSched,
                 withModel, finalizeLimit, ckpt, done, dirs, files, ret, asyncRemove, curTag,
                 relNames, todo, saveItems, saveTask, removeTask, removeTagsF, numKeptF,
                 rmTags, rmScan, rmLeft, rmFiles, crashes, raised, everDone, killed, loadSel,
                 binIn, binOut, ldDisk, ldInfo, loader>>

\* submit_remove on a CheckpointIOState that no begin() has bound to a storage: the first
\* use of self._checkpoint_dir raises AttributeError (_determine_remove_tags at 170, file_exists
\* at 185 on rank 0, remove_files at 198 / 202 on the other ranks) and the call ends there; an
\* asynchronous pass has set _remove_tags by then
SubmitRemoveUnbound(r) ==
    /\ Unbound(r)
    /\ \/ pc[r] = "sr_scan" /\ Len(explicitTags) = 0
       \/ pc[r] = "sr_clear"
       \/ pc[r] = "sr_files"
    /\ raised' = [raised EXCEPT ![r] = TRUE]
    /\ removeTagsF' = [removeTagsF EXCEPT ![r] =
                         IF pc[r] = "sr_files" /\ asyncRemove[r] THEN rmTags[r] ELSE @]
    /\ pc' = [pc EXCEPT ![r] = "idle"]
    /\ ret' = [ret EXCEPT ![r] = "idle"]
    /\ asyncRemove' = [asyncRemove EXCEPT ![r] = FALSE]
    /\ rmTags' = [rmTags EXCEPT ![r] = <<>>]
    /\ rmScan' = [rmScan EXCEPT ![r] = <<>>]
    /\ rmLeft' = [rmLeft EXCEPT ![r] = <<>>]
    /\ rmFiles' = [rmFiles EXCEPT ![r] = {}]
    /\ UNCHANGED <<world, asyncSave, numKept, tagLimit, explicitTags, tensors, withSched,
                 withModel, finalizeLimit, ckpt, done, dirs, files, argTag, curTag, relNames,
                 todo, saveItems, saveTask, removeTask, numKeptF, ncalls, script, nextTag,
                 crashes, everDone, killed, loadSel, binIn, binOut, ldDisk, ldInfo, loader>>

\* wait_remove() called on its own: it returns to the caller after its last barrier
CallWaitRemove(r) ==
    /\ pc[r] = "wr_call"
    /\ pc' = [pc EXCEPT ![r] = IF removeTask[r].held THEN "wr_wait" ELSE "wr_b2"]
    /\ ret' = [ret EXCEPT ![r] = "wr_ret"]
    /\ UNCHANGED <<world, asyncSave, numKept, tagLimit, explicitTags, tensors, withSched,
                 withModel, finalizeLimit, ckpt, done, dirs, files, argTag, asyncRemove,
                 curTag, relNames, todo, saveItems, saveTask, removeTask, removeTagsF,
                 numKeptF, rmTags, rmScan, rmLeft, rmFiles, ncalls, script, nextTag, crashes,
                 raised, everDone, killed, loadSel, binIn, binOut, ldDisk, ldInfo, loader>>

\* caller i runs _assign_tensors_to_bins on the input and gets one of the values the
\* call can return
PackCall(i) ==
    /\ binOut[i] = <<>>
    /\ \E res \in PackResults(binIn.tensors, binIn.bins) :
          binOut' = [binOut EXCEPT ![i] = <<res>>]
    /\ UNCHANGED <<world, asyncSave, numKept, tagLimit, explicitTags, tensors, withSched,
                 withModel, finalizeLimit, ckpt, done, dirs, files, pc, ret, argTag,
                 asyncRemove, curTag, relNames, todo, saveItems, saveTask, removeTask,
                 removeTagsF, numKeptF, rmTags, rmScan, rmLeft, rmFiles, ncalls, script,
                 nextTag, crashes, raised, everDone, killed, loadSel, binIn, ldDisk, ldInfo,
                 loader>>

\* convert_fn of _xser_load_data on rank r reaches its next tensor: with the side table it
\* reads the tensor or makes a zero placeholder and enters all_reduce; without it the rank
\* reads the tensor itself
LoadTensor(r) ==
    /\ loader[r].phase = "pick"
    /\ loader[r].pos < Len(ldDisk[GroupOf(r)])
    /\ LET tid == loader[r].pos
       IN  IF ldInfo
           THEN loader' = [loader EXCEPT ![r] =
                    [@ EXCEPT !.phase = "reduce",
                              !.buf = Contribution(r, tid),
                              !.reads = IF ReadsFromDisk(r, tid) THEN Append(@, tid) ELSE @]]
           ELSE loader' = [loader EXCEPT ![r] =
                    [@ EXCEPT !.pos = @ + 1,
                              !.out = Append(@, DiskValue(r, tid)),
                              !.reads = Append(@, tid)]]
    /\ UNCHANGED <<world, asyncSave, numKept, tagLimit, explicitTags, tensors, withSched,
                 withModel, finalizeLimit, ckpt, done, dirs, files, pc, ret, argTag,
                 asyncRemove, curTag, relNames, todo, saveItems, saveTask, removeTask,
                 removeTagsF, numKeptF, rmTags, rmScan, rmLeft, rmFiles, ncalls, script,
                 nextTag, crashes, raised, everDone, killed, loadSel, binIn, binOut, ldDisk,
                 ldInfo>>

\* xm.all_reduce over group k: every rank of the group has entered it for the same tensor and
\* gets the sum of the group's contributions
AllReduce(k) ==
    /\ \A j \in 1 .. Len(Groups[k]) : loader[Groups[k][j]].phase = "reduce"
    /\ loader' = [r \in Ranks |->
                    IF GroupOf(r) = k
                    THEN [loader[r] EXCEPT !.phase = "pick", !.pos = @ + 1, !.buf = 0,
                                           !.out = Append(@, GroupSum(k))]
                    ELSE loader[r]]
    /\ UNCHANGED <<world, asyncSave, numKept, tagLimit, explicitTags, tensors, withSched,
                 withModel, finalizeLimit, ckpt, done, dirs, files, pc, ret, argTag,
                 asyncRemove, curTag, relNames, todo, saveItems, saveTask, removeTask,
                 removeTagsF, numKeptF, rmTags, rmScan, rmLeft, rmFiles, ncalls, script,
                 nextTag, crashes, raised, everDone, killed, loadSel, binIn, binOut, ldDisk,
                 ldInfo>>

\* a caller hands add_save_task any filename
CallAddSaveTask(r, filename) ==
    /\ pc[r] = "save"
    /\ todo[r] = <<>>
    /\ ncalls[r] < MaxPathCalls
    /\ ncalls' = [ncalls EXCEPT ![r] = @ + 1]
    /\ todo' = [todo EXCEPT ![r] = <<filename>>]
    /\ raised' = [raised EXCEPT ![r] = FALSE]
    /\ UNCHANGED <<world, asyncSave, numKept, tagLimit, explicitTags, tensors, withSched,
                 withModel, finalizeLimit, ckpt, done, dirs, files, pc, ret, argTag,
                 asyncRemove, curTag, relNames, saveItems, saveTask, removeTask, removeTagsF,
                 numKeptF, rmTags, rmScan, rmLeft, rmFiles, script, nextTag, crashes,
                 everDone, killed, loadSel, binIn, binOut, ldDisk, ldInfo, loader>>

\* add_save_task(obj, filename): the assertion on the filename fails, or the relative name is
\* recorded and the item is queued (asynchronous) or written
AddSaveTaskPath(r) ==
    /\ pc[r] = "save"
    /\ todo[r] # <<>>
    /\ todo' = [todo EXCEPT ![r] = Tail(@)]
    /\ IF UnderCurrentTag(Head(todo[r]), curTag[r])
       THEN /\ relNames' = [relNames EXCEPT ![r] =
                               @ \cup {RelativeFilename(Head(todo[r]), curTag[r])}]
            /\ IF asyncSave
               THEN /\ saveItems' = [saveItems EXCEPT ![r] = Append(@, Head(todo[r]))]
                    /\ UNCHANGED files
               ELSE /\ files' = files \cup {Head(todo[r])}
                    /\ UNCHANGED saveItems
            /\ UNCHANGED raised
       ELSE /\ raised' = [raised EXCEPT ![r] = TRUE]
            /\ UNCHANGED <<relNames, saveItems, files>>
    /\ UNCHANGED <<world, asyncSave, numKept, tagLimit, explicitTags, tensors, withSched,
                 withModel, finalizeLimit, ckpt, done, dirs, pc, ret, argTag, asyncRemove,
                 curTag, saveTask, removeTask, removeTagsF, numKeptF, rmTags, rmScan, rmLeft,
                 rmFiles, ncalls, script, nextTag, crashes, everDone, killed, loadSel, binIn,
                 binOut, ldDisk, ldInfo, loader>>

\* ------------------------------------------------------------- specifications
\* the steps of the ranks, of their background runners and of the barrier
Core ==
    \/ \E r \in Ranks : CallSave(r)
    \/ \E r \in Ranks : Begin(r)
    \/ \E r \in Ranks : BeginMark(r)
    \/ \E r \in Ranks : AddSaveTask(r)
    \/ \E r \in Ranks : End(r)
    \/ \E r \in Ranks : EndDone(r)
    \/ \E r \in Ranks : WaitSave(r)
    \/ \E r \in Ranks : WsMark(r)
    \/ \E r \in Ranks : WaitRemove(r)
    \/ \E r \in Ranks : WrDirs(r)
    \/ \E r \in Ranks : Scan(r)
    \/ \E r \in Ranks : ClearDone(r)
    \/ \E r \in Ranks : SubmitRemoveTask(r)
    \/ \E r \in Ranks : RemoveFile(r)
    \/ \E r \in Ranks : RemoveFilesDone(r)
    \/ \E r \in Ranks : RemoveDirs(r)
    \/ \E r \in Ranks : Finalize(r)
    \/ \E r \in Ranks : BgRemove(r)
    \/ \E r \in Ranks : BgSave(r)
    \/ Rendezvous

\* training runs with process restarts and resumed loads; background tasks do not fail
Next ==
    \/ Core
    \/ Crash
    \/ LoadCheckpoint

Spec == Init /\ [][Next]_vars

\* training runs in which a background save or removal task may fail; no restart
NextFail ==
    \/ Core
    \/ \E r \in Ranks : BgSaveFail(r)
    \/ \E r \in Ranks : BgRemoveFail(r)

SpecFail == Init /\ [][NextFail]_vars

\* the end-to-end scenario: no restart, no failure. With keep count 2 the three cycles
\* and finalize_checkpoint find a tag to remove only in the last drain, which removes
\* synchronously: no removal is handed to the background runner, and the steps of a
\* removal task (SubmitRemoveTask, BgRemove, WaitRemove, WrDirs) cannot occur
NextScenario ==
    \/ \E r \in Ranks : CallSave(r)
    \/ \E r \in Ranks : Begin(r)
    \/ \E r \in Ranks : BeginMark(r)
    \/ \E r \in Ranks : AddSaveTask(r)
    \/ \E r \in Ranks : End(r)
    \/ \E r \in Ranks : EndDone(r)
    \/ \E r \in Ranks : WaitSave(r)
    \/ \E r \in Ranks : WsMark(r)
    \/ \E r \in Ranks : Scan(r)
    \/ \E r \in Ranks : ClearDone(r)
    \/ \E r \in Ranks : RemoveFile(r)
    \/ \E r \in Ranks : RemoveFilesDone(r)
    \/ \E r \in Ranks : RemoveDirs(r)
    \/ \E r \in Ranks : Finalize(r)
    \/ \E r \in Ranks : BgSave(r)
    \/ Rendezvous

SpecScenario == InitScenario /\ [][NextScenario]_vars

\* a process that saved tagLimit complete tags runs the deletion protocol on an explicit
\* removal set; a restart may interrupt it, and the protocol is then run again: after
\* begin() on the new CheckpointIOState, or before it, and then the call raises
InitRemove ==
    /\ world \in Worlds
    /\ asyncSave \in BOOLEAN
    /\ numKept = <<>>
    /\ tagLimit \in 1 .. MaxTags
    /\ explicitTags \in {SortedSeq(S) : S \in SUBSET (1 .. tagLimit) \ {{}}}
    /\ tensors \in {ModelOf(k) : k \in 0 .. MaxTensors}
    /\ withSched = FALSE
    /\ withModel = TRUE
    /\ finalizeLimit = MaxFinalize
    /\ ckpt = 1 .. tagLimit
    /\ done = 1 .. tagLimit
    /\ dirs = 1 .. tagLimit
    /\ files = UNION {PayloadOf(t) : t \in 1 .. tagLimit}
    /\ everDone = 1 .. tagLimit
    /\ killed = {}
    /\ pc = [r \in Ranks |-> "idle"]
    /\ ret = [r \in Ranks |-> "idle"]
    /\ argTag = [r \in Ranks |-> tagLimit]
    /\ asyncRemove = [r \in Ranks |-> FALSE]
    /\ curTag = [r \in Ranks |-> tagLimit]
    /\ relNames = [r \in Ranks |-> SeqToSet(SavePlan(r))]
    /\ todo = [r \in Ranks |-> <<>>]
    /\ saveItems = [r \in Ranks |-> <<>>]
    /\ saveTask = [r \in Ranks |-> NoTask]
    /\ removeTask = [r \in Ranks |-> NoRemoveTask]
    /\ removeTagsF = [r \in Ranks |-> <<>>]
    /\ numKeptF = [r \in Ranks |-> numKept]
    /\ rmTags = [r \in Ranks |-> <<>>]
    /\ rmScan = [r \in Ranks |-> <<>>]
    /\ rmLeft = [r \in Ranks |-> <<>>]
    /\ rmFiles = [r \in Ranks |-> {}]
    /\ ncalls = [r \in Ranks |-> 0]
    /\ raised = [r \in Ranks |-> FALSE]
    /\ nextTag = [r \in Ranks |-> tagLimit + 1]
    /\ script = <<>>
    /\ crashes = 0
    /\ loadSel = NoLoad
    /\ NoPacking
    /\ NoLoading

NextRemove ==
    \/ \E r \in Ranks, a \in BOOLEAN : CallRemove(r, a)
    \/ \E r \in Ranks : CallBegin(r)
    \/ \E r \in Ranks : Begin(r)
    \/ \E r \in Ranks : BeginMark(r)
    \/ \E r \in Ranks : SubmitRemoveUnbound(r)
    \/ \E r \in Ranks : CallWaitRemove(r)
    \/ \E r \in Ranks : Scan(r)
    \/ \E r \in Ranks : ClearDone(r)
    \/ \E r \in Ranks : SubmitRemoveTask(r)
    \/ \E r \in Ranks : RemoveFile(r)
    \/ \E r \in Ranks : RemoveFilesDone(r)
    \/ \E r \in Ranks : RemoveDirs(r)
    \/ \E r \in Ranks : WaitRemove(r)
    \/ \E r \in Ranks : WrDirs(r)
    \/ \E r \in Ranks : BgRemove(r)
    \/ Rendezvous
    \/ Crash

SpecRemove == InitRemove /\ [][NextRemove]_vars

\* a process that resumes on an output directory holding tagLimit tags, any of them
\* without its `done` marker, runs a retention pass with any keep count; a restart may
\* interrupt the pass, and the pass is then run again: after begin() on the new
\* CheckpointIOState, or before it, and then the call raises
InitRetain ==
    /\ world \in Worlds
    /\ asyncSave \in BOOLEAN
    /\ numKept \in KeepCounts
    /\ tagLimit \in 1 .. MaxTags
    /\ explicitTags = <<>>
    /\ tensors \in {ModelOf(k) : k \in 0 .. MaxTensors}
    /\ withSched = FALSE
    /\ withModel = TRUE
    /\ finalizeLimit = MaxFinalize
    /\ ckpt = 1 .. tagLimit
    /\ done \in SUBSET (1 .. tagLimit)
    /\ dirs = 1 .. tagLimit
    /\ files = UNION {PayloadOf(t) : t \in 1 .. tagLimit}
    /\ everDone = done
    /\ killed = ckpt \ done
    /\ pc = [r \in Ranks |-> "idle"]
    /\ ret = [r \in Ranks |-> "idle"]
    /\ argTag = [r \in Ranks |-> tagLimit]
    /\ asyncRemove = [r \in Ranks |-> FALSE]
    /\ curTag = [r \in Ranks |-> tagLimit]
    /\ relNames = [r \in Ranks |-> SeqToSet(SavePlan(r))]
    /\ todo = [r \in Ranks |-> <<>>]
    /\ saveItems = [r \in Ranks |-> <<>>]
    /\ saveTask = [r \in Ranks |-> NoTask]
    /\ removeTask = [r \in Ranks |-> NoRemoveTask]
    /\ removeTagsF = [r \in Ranks |-> <<>>]
    /\ numKeptF = [r \in Ranks |-> numKept]
    /\ rmTags = [r \in Ranks |-> <<>>]
    /\ rmScan = [r \in Ranks |-> <<>>]
    /\ rmLeft = [r \in Ranks |-> <<>>]
    /\ rmFiles = [r \in Ranks |-> {}]
    /\ ncalls = [r \in Ranks |-> 0]
    /\ raised = [r \in Ranks |-> FALSE]
    /\ nextTag = [r \in Ranks |-> tagLimit + 1]
    /\ script = <<>>
    /\ crashes = 0
    /\ loadSel = NoLoad
    /\ NoPacking
    /\ NoLoading

SpecRetain == InitRetain /\ [][NextRemove]_vars

\* training runs that keep every checkpoint (num_kept_ckpts None or -1), with process
\* restarts and resumed loads
\* num_kept_ckpts None and -1
KeepAllCounts == {<<>>, <<-1>>}

InitKeepAll ==
    /\ world \in Worlds
    /\ asyncSave \in BOOLEAN
    /\ numKept \in KeepAllCounts
    /\ tagLimit = MaxTags
    /\ explicitTags = <<>>
    /\ tensors \in {ModelOf(k) : k \in 0 .. MaxTensors}
    /\ withSched = FALSE
    /\ withModel = TRUE
    /\ finalizeLimit = MaxFinalize
    /\ InitStorage
    /\ InitRanks(world)
    /\ nextTag = [r \in Ranks |-> 1]
    /\ NoPacking
    /\ NoLoading

SpecKeepAll == InitKeepAll /\ [][Next]_vars

\* training runs whose save_checkpoint calls get any of model and scheduler, or neither;
\* no restart, no failure
InitContent ==
    /\ world \in Worlds
    /\ asyncSave \in BOOLEAN
    /\ numKept \in {<<>>, <<1>>}
    /\ tagLimit = MaxTags
    /\ explicitTags = <<>>
    /\ tensors \in {ModelOf(k) : k \in 0 .. MaxTensors}
    /\ withSched \in BOOLEAN
    /\ withModel \in BOOLEAN
    /\ finalizeLimit = MaxFinalize
    /\ InitStorage
    /\ InitRanks(world)
    /\ nextTag = [r \in Ranks |-> 1]
    /\ NoPacking
    /\ NoLoading

SpecContent == InitContent /\ [][Core]_vars

\* the steps of the main thread of rank r
RankStep(r) ==
    \/ CallSave(r) \/ Begin(r) \/ BeginMark(r) \/ AddSaveTask(r) \/ End(r) \/ EndDone(r)
    \/ WaitSave(r) \/ WsMark(r) \/ WaitRemove(r) \/ WrDirs(r) \/ Scan(r) \/ ClearDone(r)
    \/ SubmitRemoveTask(r) \/ RemoveFile(r) \/ RemoveFilesDone(r) \/ RemoveDirs(r)
    \/ Finalize(r)

\* every rank goes on making the calls of the common sequence and taking the steps of the
\* call it is in, a barrier that every rank has reached lets them go, and the background
\* runner of every rank works off its tasks
Fairness ==
    /\ \A r \in 0 .. (MaxRanks - 1) : WF_vars(r \in Ranks /\ RankStep(r))
    /\ \A r \in 0 .. (MaxRanks - 1) : WF_vars(r \in Ranks /\ BgSave(r))
    /\ \A r \in 0 .. (MaxRanks - 1) : WF_vars(r \in Ranks /\ BgRemove(r))
    /\ WF_vars(Rendezvous)

\* training runs without restart and without failure, under fair scheduling
SpecLive == Init /\ [][Core]_vars /\ Fairness

\* add_save_task on every filename within the bounds: one rank has begun a tag and its
\* caller hands add_save_task any filenames
PathChars == {"a", "b", "/"}

Filenames == UNION {[1 .. n -> PathChars] : n \in 0 .. MaxPathLen}

TagNames == {<<"a">>, <<"a", "b">>}

InitPath ==
    /\ world = [n |-> 1, g |-> 1]
    /\ asyncSave \in BOOLEAN
    /\ numKept = <<>>
    /\ tagLimit = 1
    /\ explicitTags = <<>>
    /\ tensors = <<>>
    /\ withSched = FALSE
    /\ withModel = FALSE
    /\ finalizeLimit = MaxFinalize
    /\ done = {}
    /\ files = {}
    /\ everDone = {}
    /\ killed = {}
    /\ pc = [r \in Ranks |-> "save"]
    /\ ret = [r \in Ranks |-> "idle"]
    /\ argTag = [r \in Ranks |-> 0]
    /\ asyncRemove = [r \in Ranks |-> FALSE]
    /\ curTag \in [Ranks -> TagNames]
    /\ ckpt = {curTag[0]}
    /\ dirs = {curTag[0]}
    /\ relNames = [r \in Ranks |-> {}]
    /\ todo = [r \in Ranks |-> <<>>]
    /\ saveItems = [r \in Ranks |-> <<>>]
    /\ saveTask = [r \in Ranks |-> NoTask]
    /\ removeTask = [r \in Ranks |-> NoRemoveTask]
    /\ removeTagsF = [r \in Ranks |-> <<>>]
    /\ numKeptF = [r \in Ranks |-> <<>>]
    /\ rmTags = [r \in Ranks |-> <<>>]
    /\ rmScan = [r \in Ranks |-> <<>>]
    /\ rmLeft = [r \in Ranks |-> <<>>]
    /\ rmFiles = [r \in Ranks |-> {}]
    /\ ncalls = [r \in Ranks |-> 0]
    /\ raised = [r \in Ranks |-> FALSE]
    /\ nextTag = [r \in Ranks |-> 2]
    /\ script = <<>>
    /\ crashes = 0
    /\ loadSel = NoLoad
    /\ NoPacking
    /\ NoLoading

NextPath ==
    \/ \E r \in Ranks, filename \in Filenames : CallAddSaveTask(r, filename)
    \/ \E r \in Ranks : AddSaveTaskPath(r)

SpecPath == InitPath /\ [][NextPath]_vars

\* training runs that end with finalize_checkpoint followed by the exit hook: two wait_all()
\* calls; with process restarts and resumed loads
InitDrain ==
    /\ world \in Worlds
    /\ asyncSave \in BOOLEAN
    /\ numKept \in {<<>>, <<1>>}
    /\ tagLimit = MaxTags
    /\ explicitTags = <<>>
    /\ tensors \in {ModelOf(k) : k \in 0 .. MaxTensors}
    /\ withSched = FALSE
    /\ withModel = TRUE
    /\ finalizeLimit = MaxFinalize + 1
    /\ InitStorage
    /\ InitRanks(world)
    /\ nextTag = [r \in Ranks |-> 1]
    /\ NoPacking
    /\ NoLoading

SpecDrain == InitDrain /\ [][Next]_vars

\* the bin packer on every input within the bounds, called by two ranks of a group
TensorKinds == [numel : 0 .. MaxNumel, esize : {1, 2}]

TensorLists == UNION {[1 .. n -> TensorKinds] : n \in 0 .. MaxItems}

InitPack ==
    /\ binIn \in [tensors : TensorLists, bins : 1 .. MaxBins]
    /\ binOut = <<<<>>, <<>>>>
    /\ world = [n |-> 1, g |-> 1]
    /\ asyncSave = FALSE
    /\ numKept = <<>>
    /\ tagLimit = 0
    /\ explicitTags = <<>>
    /\ tensors = <<>>
    /\ withSched = FALSE
    /\ withModel = TRUE
    /\ finalizeLimit = MaxFinalize
    /\ InitStorage
    /\ InitRanks(world)
    /\ nextTag = [r \in Ranks |-> 1]
    /\ NoLoading

NextPack == \E i \in 1 .. 2 : PackCall(i)

SpecPack == InitPack /\ [][NextPack]_vars

\* _xser_load_data of a replicated checkpoint: every group reads the tensors 0..n-1 of
\* its shard
LoadWorlds == {[n |-> g * m, g |-> g] : g \in 1 .. MaxLoadGroup, m \in 1 .. 2}

NewLoader == [pos |-> 0, phase |-> "pick", buf |-> 0, out |-> <<>>, reads |-> <<>>]

InitLoad ==
    /\ world \in LoadWorlds
    /\ ldInfo \in BOOLEAN
    /\ \E n \in 0 .. MaxLoadTensors :
          ldDisk \in [0 .. ((world.n \div world.g) - 1) -> [1 .. n -> 0 .. MaxValue]]
    /\ loader = [r \in Ranks |-> NewLoader]
    /\ asyncSave = FALSE
    /\ numKept = <<>>
    /\ tagLimit = 0
    /\ explicitTags = <<>>
    /\ tensors = <<>>
    /\ withSched = FALSE
    /\ withModel = TRUE
    /\ finalizeLimit = MaxFinalize
    /\ InitStorage
    /\ InitRanks(world)
    /\ nextTag = [r \in Ranks |-> 1]
    /\ NoPacking

NextLoad ==
    \/ \E r \in Ranks : LoadTensor(r)
    \/ \E k \in DOMAIN Groups : AllReduce(k)

SpecLoad == InitLoad /\ [][NextLoad]_vars

\* two save cycles of a replicated model, with and without a scheduler, keeping all tags
\* or none: the save plan of every rank and the retention pass that deletes what the
\* ranks wrote
SaveWorlds == {[n |-> 2, g |-> 1], [n |-> 2, g |-> 2], [n |-> 3, g |-> 3]}

InitSave ==
    /\ world \in SaveWorlds
    /\ asyncSave \in BOOLEAN
    /\ numKept \in {<<>>, <<0>>}
    /\ tagLimit = 2
    /\ explicitTags = <<>>
    /\ tensors \in {ModelOf(k) : k \in 0 .. MaxPlanTensors}
    /\ withSched \in BOOLEAN
    /\ withModel = TRUE
    /\ finalizeLimit = MaxFinalize
    /\ InitStorage
    /\ InitRanks(world)
    /\ nextTag = [r \in Ranks |-> 1]
    /\ NoPacking
    /\ NoLoading

SpecSave == InitSave /\ [][Core]_vars


\* ------------------------------------------------------------- properties
\* C1: whenever the done marker of a tag is written, every payload file that any rank
\* writes under that tag is already in storage: the marker follows all ranks' writes.
DoneAfterAllPayloadWrites ==
    [][\A t \in done' \ done : PayloadOf(t) \subseteq files]_vars

\* an asynchronous run of two ranks with a model tensor completed a tag
DoneAfterAllPayloadWritesWitness ==
    /\ asyncSave
    /\ world.n = 2
    /\ tensors # <<>>
    /\ \E t \in done : PayloadOf(t) \subseteq files /\ Cardinality(PayloadOf(t)) > 2

\* C2: whenever a payload file under a tag is deleted, that tag's done marker has
\* already been removed.
DoneRemovedBeforePayloadDelete ==
    [][\A f \in files \ files' : f[1] \notin done]_vars

\* the incomplete tags of the listing that no completed tag precedes
CorruptedTags == {t \in ckpt \ done : \A c \in done : t < c}

\* the m oldest tags of a set of tags
OldestOf(S, m) == {t \in S : Cardinality({c \in S : c < t}) < m}

\* C3: with n completed tags in the listing and a keep count K >= 0, the removal set of
\* a retention pass is exactly the oldest max(0, n-K) completed tags plus all corrupted
\* tags, and once the coordinator has cleared the done markers exactly the newest
\* min(n, K) completed tags still carry one.
RetentionRemovesOldestExcess ==
    \A r \in Ranks :
        LET K == KeepArg(r)
        IN  (Len(explicitTags) = 0 /\ K # <<>> /\ K[1] >= 0) =>
            /\ pc[r] = "sr_b1" =>
                LET n == Cardinality(done)
                    expected == CorruptedTags \cup OldestOf(done, Max(0, n - K[1]))
                IN  /\ SeqToSet(rmTags[r]) = expected
                    /\ Len(rmTags[r]) = Cardinality(expected)
            /\ (r = 0 /\ pc[r] = "sr_files") =>
                LET scanned == SeqToSet(rmScan[r])
                    n == Len(rmScan[r])
                IN  /\ done = scanned \ OldestOf(scanned, Max(0, n - K[1]))
                    /\ Cardinality(done) = Min(n, K[1])
                    /\ \A t \in done, c \in scanned \ done : c < t

\* the coordinator cleared the marker of an excess tag in a pass that also removes a
\* corrupted tag
RetentionRemovesOldestExcessWitness ==
    /\ pc[0] = "sr_files"
    /\ Len(explicitTags) = 0
    /\ KeepArg(0) # <<>>
    /\ KeepArg(0)[1] >= 1
    /\ Len(rmScan[0]) > KeepArg(0)[1]
    /\ \E t \in SeqToSet(rmTags[0]) : t \notin SeqToSet(rmScan[0])

\* C4 as stated: a tag whose save was killed between its payload writes and its done
\* marker is not counted as completed by the next retention pass, and is in the removal
\* set whenever a later completed tag exists.
KilledTagCorruptedWhenPredating ==
    \A r \in Ranks : (pc[r] = "sr_b1" /\ Len(explicitTags) = 0) =>
        \A t \in killed \cap ckpt :
            /\ t \notin SeqToSet(rmScan[r])
            /\ (\E c \in done : c > t) => t \in SeqToSet(rmTags[r])

\* C4, amended: a tag whose save was killed between its payload writes and its done
\* marker is not counted as completed by the next retention pass, and is in the removal
\* set exactly when no completed tag precedes it in the listing.
KilledTagCorruptedIffNoneCompletedBefore ==
    \A r \in Ranks : (pc[r] = "sr_b1" /\ Len(explicitTags) = 0) =>
        \A t \in killed \cap ckpt :
            /\ t \notin SeqToSet(rmScan[r])
            /\ t \in SeqToSet(rmTags[r]) <=> (\A c \in done : c > t)

\* a retention pass after a restart removes a tag whose save was killed after its
\* payload writes
KilledTagCorruptedIffNoneCompletedBeforeWitness ==
    \E r \in Ranks :
        /\ pc[r] = "sr_b1"
        /\ \E t \in killed \cap ckpt : PayloadOf(t) \subseteq files /\ t \in SeqToSet(rmTags[r])

\* C5: in asynchronous mode, whenever end() submits a new save task the rank's previous
\* save task is over and cleared, and whenever submit_remove() submits a new removal
\* task the rank's previous removal task is over and cleared: a rank never has two
\* tasks of a kind outstanding.
OneTaskOfAKindOutstanding ==
    [][\A r \in Ranks : (asyncSave /\ crashes' = crashes) =>
        /\ (pc[r] = "save" /\ pc'[r] = "idle" /\ Len(saveItems[r]) > 0) =>
              /\ saveTask[r] = NoTask
              /\ saveTask'[r].st = "run"
        /\ (pc[r] = "sr_files" /\ removeTask'[r] # removeTask[r] /\ removeTask'[r].held) =>
              /\ removeTask[r] = NoRemoveTask
              /\ removeTask'[r].st = "run"]_vars

\* a rank holds the save task of a second cycle while the removal task submitted by
\* that cycle's begin() is still held
OneTaskOfAKindOutstandingWitness ==
    /\ asyncSave
    /\ \E r \in Ranks :
        /\ curTag[r] >= 2
        /\ saveTask[r].held
        /\ saveTask[r].st = "run"
        /\ saveTask[r].items[1][1] = curTag[r]
        /\ removeTask[r].held

\* every rank has returned from the scenario's third save cycle; in asynchronous mode
\* the cycles were followed by finalize_checkpoint, which drains the third save
ScenarioDone ==
    \A r \in Ranks :
        /\ pc[r] = "idle"
        /\ nextTag[r] = Scenario.cycles + 1
        /\ asyncSave => (ncalls[r] = Scenario.cycles + 1 /\ script[ncalls[r]] = "final")

\* C6: with 4 ranks in groups [[0,1],[2,3]], 3 tensors and keep count 2, after 3 save
\* cycles exactly 2 completed tags remain, the directory and the checkpoint and done
\* markers of the oldest tag are absent, and load_checkpoint(tag=None) selects the
\* third tag.
ScenarioKeepsTwoNewest ==
    ScenarioDone =>
        /\ Cardinality(done) = 2
        /\ done = {2, 3}
        /\ 1 \notin dirs \cup ckpt \cup done
        /\ \A f \in files : f[1] # 1
        /\ PayloadOf(2) \cup PayloadOf(3) \subseteq files
        /\ LoadSelectTag(ckpt, done) = [st |-> "ok", tag |-> 3]

\* the asynchronous scenario ran to its end with every rank's files in storage
ScenarioKeepsTwoNewestWitness ==
    /\ ScenarioDone
    /\ asyncSave
    /\ Cardinality(PayloadOf(3)) = 10
    /\ PayloadOf(3) \subseteq files

\* the save task of rank r failed
FailedSave(r) == saveTask[r].st = "err"

\* C7: when the background save task of a cycle fails on a rank, the rank's next drain
\* point raises the failure before the rank joins any barrier, the done marker of that
\* cycle's tag is never written, and the save is not retried: the failed task is never
\* replaced or resumed and what it left unwritten stays unwritten.
SaveFailureRaisedAtDrain ==
    /\ [](\A r \in Ranks : FailedSave(r) =>
            /\ pc[r] \in {"idle", "ws_wait"}
            /\ saveTask[r].items # <<>>
            /\ saveTask[r].items[1][1] = curTag[r]
            /\ curTag[r] \notin done
            /\ \A k \in 1 .. Len(saveTask[r].items) : saveTask[r].items[k] \notin files)
    /\ [](\A r \in Ranks : raised[r] => FailedSave(r) \/ RemoveTaskFailed(r))
    /\ [][\A r \in Ranks : FailedSave(r) =>
            /\ saveTask'[r] = saveTask[r]
            /\ (pc[r] = "ws_wait" /\ pc'[r] # pc[r]) => (raised'[r] /\ pc'[r] = "idle")]_vars

\* in a run of two ranks a failed save task was raised by a drain, and the tag has no
\* done marker
SaveFailureRaisedAtDrainWitness ==
    /\ world.n = 2
    /\ \E r \in Ranks :
        /\ FailedSave(r)
        /\ raised[r]
        /\ curTag[r] \notin done
        /\ \E q \in Ranks : pc[q] = "ws_b1"

\* C8: load_checkpoint(tag=None) raises an error when no tag carries a done marker, and
\* otherwise selects the last tag of the completed-tag listing; the selected tag always
\* carries a done marker, whatever incomplete tags are in storage.
LoadSelectsLastCompleted ==
    [][(loadSel' # loadSel /\ loadSel'.st # "none") =>
        /\ (done = {}) <=> (loadSel'.st = "error")
        /\ (done # {}) =>
            /\ loadSel'.st = "ok"
            /\ loadSel'.tag \in done
            /\ \A c \in done : c <= loadSel'.tag]_vars

\* a resumed process loaded a completed tag while storage holds a newer tag without a
\* done marker and an older one whose deletion was interrupted
LoadSelectsLastCompletedWitness ==
    /\ loadSel.st = "ok"
    /\ \A r \in Ranks : ncalls[r] = 0
    /\ \E t \in ckpt \ done : t > loadSel.tag
    /\ \E t \in ckpt \ done : t < loadSel.tag

\* every rank has returned without an error from the deletion protocol, run once or,
\* after an interruption, run again by the restarted process once begin() has bound its
\* new CheckpointIOState to the storage
RemoveFinished ==
    \A r \in Ranks :
        /\ pc[r] = "idle"
        /\ ~raised[r]
        /\ ncalls[r] >= 1
        /\ script[ncalls[r]] \in {"remove_sync", "remove_async"}

\* the tags of the storage the first run started on; the begin() of a restarted process
\* adds the directory and the `checkpoint` marker of its own, later tag
InitialTags == 1 .. tagLimit

\* the tags of the initial storage that are not in the removal set
KeptTags == InitialTags \ SeqToSet(explicitTags)

\* C9: a run of the deletion protocol on an explicit removal set that follows a first
\* run interrupted at any step ends in the same storage state as one uninterrupted
\* run: the tags of the removal set are gone with their markers, directories and
\* files, and every other tag is untouched.
DeletionIdempotent ==
    RemoveFinished =>
        /\ ckpt \cap InitialTags = KeptTags
        /\ done = KeptTags
        /\ dirs \cap InitialTags = KeptTags
        /\ files = UNION {PayloadOf(t) : t \in KeptTags}

\* two ranks finished the second run of the protocol on a removal set of two tags,
\* with a third tag kept
DeletionIdempotentWitness ==
    /\ RemoveFinished
    /\ crashes = 1
    /\ world.n = 2
    /\ Len(explicitTags) = 2
    /\ KeptTags # {}
    /\ tensors # <<>>

\* the byte total of one returned bin of tensor indices
BinBytes(bin) == SumSeq([j \in 1 .. Len(bin) |-> TensorBytes(binIn.tensors[bin[j] + 1])])

\* C10: for every tensor sequence and bin count B >= 1, _assign_tensors_to_bins returns
\* B groups in which every tensor index 0..n-1 appears exactly once, the per-bin byte
\* totals add up to the total input size, and two calls on the same input return the
\* same partition.
BinsPartitionTensors ==
    /\ \A i \in DOMAIN binOut : binOut[i] # <<>> =>
        LET res == binOut[i][1]
            n == Len(binIn.tensors)
            B == binIn.bins
        IN  /\ DOMAIN res = 0 .. (B - 1)
            /\ \A b \in DOMAIN res : \A j \in 1 .. Len(res[b]) : res[b][j] \in 0 .. (n - 1)
            /\ \A k \in 0 .. (n - 1) :
                 Cardinality({p \in {<<b, j>> : b \in DOMAIN res, j \in 1 .. MaxItems + 1} :
                                 p[2] <= Len(res[p[1]]) /\ res[p[1]][p[2]] = k}) = 1
            /\ SumSeq([b \in 1 .. B |-> BinBytes(res[b - 1])])
                 = SumSeq([k \in 1 .. n |-> TensorBytes(binIn.tensors[k])])
    /\ \A i, j \in DOMAIN binOut : (binOut[i] # <<>> /\ binOut[j] # <<>>) => binOut[i] = binOut[j]

\* both callers packed three tensors, two of equal size and one of zero bytes, into
\* two bins
BinsPartitionTensorsWitness ==
    /\ DOMAIN binOut = 1 .. 2
    /\ binOut[1] # <<>>
    /\ binOut[2] # <<>>
    /\ binIn.bins = 2
    /\ Len(binIn.tensors) = 3
    /\ TensorBytes(binIn.tensors[1]) = TensorBytes(binIn.tensors[3])
    /\ TensorBytes(binIn.tensors[2]) = 0
    /\ Len(binOut[1][1][0]) = 2

\* largest minus smallest of the byte totals of bins 0..B-1, given each bin's total
SpreadOf(totals) ==
    LET hi == CHOOSE x \in {totals[b] : b \in DOMAIN totals} : \A b \in DOMAIN totals : totals[b] <= x
        lo == CHOOSE x \in {totals[b] : b \in DOMAIN totals} : \A b \in DOMAIN totals : x <= totals[b]
    IN  hi - lo

\* the spread of the partition the packer returned
PackedSpread(res) == SpreadOf([b \in DOMAIN res |-> BinBytes(res[b])])

\* the spread of the partition that puts tensor k (1-based) into bin a[k]
AssignedSpread(a) ==
    SpreadOf([b \in 0 .. (binIn.bins - 1) |->
                 SumSeq([k \in 1 .. Len(binIn.tensors) |->
                            IF a[k] = b THEN TensorBytes(binIn.tensors[k]) ELSE 0])])

\* the byte size of the largest tensor of the input, 0 without tensors
LargestTensor ==
    IF binIn.tensors = <<>> THEN 0
    ELSE CHOOSE x \in {TensorBytes(binIn.tensors[k]) : k \in 1 .. Len(binIn.tensors)} :
             \A k \in 1 .. Len(binIn.tensors) : TensorBytes(binIn.tensors[k]) <= x

\* C11 as stated: no partition of the same tensors into B groups has a smaller
\* difference between its largest and smallest bin totals than the returned one.
BinsAsBalancedAsPossible ==
    \A i \in DOMAIN binOut : binOut[i] # <<>> =>
        \A a \in [1 .. Len(binIn.tensors) -> 0 .. (binIn.bins - 1)] :
            PackedSpread(binOut[i][1]) <= AssignedSpread(a)

\* C11, amended: the difference between the largest and the smallest bin total of the
\* returned groups is at most the byte size of the largest tensor.
BinsSpreadAtMostLargestTensor ==
    \A i \in DOMAIN binOut : binOut[i] # <<>> =>
        PackedSpread(binOut[i][1]) <= LargestTensor

\* three tensors were packed into two bins with a spread equal to the largest tensor
BinsSpreadAtMostLargestTensorWitness ==
    /\ DOMAIN binOut = 1 .. 2
    /\ binOut[1] # <<>>
    /\ binIn.bins = 2
    /\ Len(binIn.tensors) = 3
    /\ LargestTensor > 0
    /\ PackedSpread(binOut[1][1]) = LargestTensor

\* the ranks of the group of rank r
GroupMates(r) == {q \in Ranks : GroupOf(q) = GroupOf(r)}

\* C12: in a replicated load with the side table present, every tensor id is read from
\* disk by exactly one rank of the group, the one whose rank-in-group is id mod g; the
\* other ranks hand a zero placeholder to the sum, and after the group's sum every rank
\* of the group holds the value stored on disk.
ReplicatedLoadOneReader ==
    ldInfo => \A r \in DOMAIN loader :
        LET me == GetMyGroupInfo(r)
            mine == SeqToSet(loader[r].reads)
        IN  /\ \A tid \in mine : tid % me.size = me.index
            /\ \A tid \in 0 .. (loader[r].pos - 1) :
                  /\ Cardinality({q \in GroupMates(r) : tid \in SeqToSet(loader[q].reads)}) = 1
                  /\ loader[r].out[tid + 1] = DiskValue(r, tid)
            /\ (loader[r].phase = "reduce" /\ loader[r].pos \notin mine) => loader[r].buf = 0
            /\ (loader[r].phase = "reduce" /\ loader[r].pos \in mine) =>
                  loader[r].buf = DiskValue(r, loader[r].pos)

\* two groups of three ranks loaded three tensors, one of them non-zero on disk
ReplicatedLoadOneReaderWitness ==
    /\ ldInfo
    /\ world = [n |-> 6, g |-> 3]
    /\ \A r \in DOMAIN loader : loader[r].pos = 3 /\ Len(loader[r].out) = 3
    /\ \E tid \in 0 .. 2 : DiskValue(1, tid) # 0 /\ loader[1].out[tid + 1] = DiskValue(1, tid)
    /\ ldDisk[0] # ldDisk[1]

\* C13: in a replicated load with the side table present, a group of size g and n
\* tensors with ids 0..n-1, no rank reads more than ceil(n/g) tensors from disk.
ReplicatedLoadReadsBounded ==
    ldInfo => \A r \in DOMAIN loader :
        LET n == Len(ldDisk[GroupOf(r)])
            g == GetMyGroupInfo(r).size
        IN  /\ Len(loader[r].reads) <= (n + g - 1) \div g
            /\ Cardinality(SeqToSet(loader[r].reads)) = Len(loader[r].reads)

\* in a group of two ranks that loaded three tensors one rank read two of them and the
\* other read one
ReplicatedLoadReadsBoundedWitness ==
    /\ ldInfo
    /\ world.g = 2
    /\ \A r \in DOMAIN loader : loader[r].pos = 3
    /\ Len(loader[0].reads) = 2
    /\ Len(loader[1].reads) = 1

\* the bin of the packer's result bins that holds tensor i
BinOfTensor(i, bins) ==
    CHOOSE b \in DOMAIN bins : i \in SeqToSet(bins[b])

\* the ranks whose save plan holds the tensor file of tensor i of shard key k, plans
\* being the set of pairs of a rank and the files of its save plan
TensorWriters(k, i, plans) == {p[1] : p \in {q \in plans : TensorFile(k, i) \in q[2]}}

\* C14: in a replicated save every tensor is queued for writing by exactly one rank of
\* its group, the rank whose rank-in-group is the tensor's bin index; every rank puts a
\* reference (id, shape, dtype) in place of every tensor; and when a tag is marked done
\* a tensor file exists under it for every tensor id of every group.
ReplicatedSaveOneWriter ==
    /\ [](LET bins == AssignTensorsToBins(tensors, world.g)
               plans == {<<r, SeqToSet(SavePlan(r))>> : r \in Ranks}
           IN  \A k \in DOMAIN Groups : \A i \in 0 .. (Len(tensors) - 1) :
                 LET writers == TensorWriters(k, i, plans)
                     members == {r \in Ranks : GroupOf(r) = k}
                     bin == BinOfTensor(i, bins)
                 IN  /\ Cardinality(writers) = 1
                     /\ writers \subseteq members
                     /\ \A r \in members :
                           (r \in writers) <=> (GetMyGroupInfo(r).index = bin))
    /\ [](\A r \in Ranks :
            LET plan == SeqToSet(SavePlan(r))
                refs == RewrittenTensors(r)
            IN  /\ relNames[r] \subseteq plan
                /\ (curTag[r] # 0 /\ pc[r] \notin {"begin_mark", "save"}) => relNames[r] = plan
                /\ Len(refs) = Len(tensors)
                /\ \A i \in 1 .. Len(tensors) : refs[i].tid = i - 1)
    /\ [][\A t \in done' \ done : \A r \in Ranks : \A i \in 0 .. (Len(tensors) - 1) :
            <<t, TensorFile(GroupOf(r), i)>> \in files]_vars

\* a group of three ranks completed a tag of three tensors, one tensor queued by each
ReplicatedSaveOneWriterWitness ==
    /\ world.g = 3
    /\ Len(tensors) = 3
    /\ done # {}
    /\ \A r \in Ranks :
          Cardinality({f \in relNames[r] : f.kind = "tensor"}) = 1
    /\ \A i \in 0 .. 2 : \E t \in done : <<t, TensorFile(0, i)>> \in files

\* the payload files rank r is about to delete in the running retention pass: the rest
\* of its synchronous remove_files call or of its background removal task
PendingDeletes(r) ==
    (IF pc[r] = "sr_files" THEN rmFiles[r] ELSE {})
    \cup (IF removeTask[r].st = "run" THEN removeTask[r].items ELSE {})

\* the payload files rank r has queued for its background save task
QueuedWrites(r) == SeqToSet(saveItems[r]) \cup SeqToSet(saveTask[r].items)

\* C15: no payload path is written by more than one rank: the paths the ranks write are
\* pairwise disjoint, the structure payload and the side table of a shard key are
\* written only by the group's index-0 rank and the scheduler file only by rank 0; and
\* in a retention pass no payload path is deleted by more than one rank.
PayloadPathsDisjoint ==
    /\ \A r, q \in Ranks : r # q =>
          /\ relNames[r] \cap relNames[q] = {}
          /\ QueuedWrites(r) \cap QueuedWrites(q) = {}
          /\ PendingDeletes(r) \cap PendingDeletes(q) = {}
    /\ \A r \in Ranks :
          /\ \A f \in relNames[r] :
                /\ f.kind \in {"state", "info"} =>
                      (GetMyGroupInfo(r).index = 0 /\ f.key = GroupOf(r))
                /\ f.kind = "tensor" => f.key = GroupOf(r)
                /\ f.kind = "sched" => r = 0
          /\ \A w \in QueuedWrites(r) : w[2] \in relNames[r]
          /\ \A d \in PendingDeletes(r) : d[2] \in relNames[r]

\* two ranks of a group each have files to delete in a retention pass of a run that
\* saves a scheduler
PayloadPathsDisjointWitness ==
    /\ withSched
    /\ world.g >= 2
    /\ SchedFile \in relNames[0]
    /\ \E r, q \in Ranks :
          /\ r # q
          /\ PendingDeletes(r) # {}
          /\ PendingDeletes(q) # {}
          /\ \E f \in relNames[0] : f.kind = "state"


\* the tags of the listing that have no `done` marker
IncompleteTags == ckpt \ done

\* no completed tag precedes tag t in the listing
NoCompletedBefore(t) == \A c \in done : c > t

\* C16: _determine_remove_tags puts an incomplete tag in the removal set if and only if
\* no completed tag precedes it in the listing, whatever the keep count; and the removal
\* set a retention pass computes from the storage obeys the same rule.
IncompleteRemovedIffNoCompletedBefore ==
    /\ [](\A K \in KeepCounts :
            LET removed == SeqToSet(DetermineRemoveTags(ckpt, done, K))
            IN  \A t \in IncompleteTags : t \in removed <=> NoCompletedBefore(t))
    /\ [][\A r \in Ranks :
            (pc[r] = "sr_scan" /\ pc'[r] = "sr_b1" /\ Len(explicitTags) = 0) =>
                \A t \in IncompleteTags : t \in SeqToSet(rmTags'[r]) <=> NoCompletedBefore(t)]_vars

\* a retention pass has scanned a listing with an incomplete tag before every completed
\* tag and another incomplete tag after a completed one: it took the first, not the second
IncompleteRemovedIffNoCompletedBeforeWitness ==
    \E r \in Ranks :
        /\ pc[r] = "sr_b1"
        /\ Len(explicitTags) = 0
        /\ \E t, u \in IncompleteTags :
              /\ NoCompletedBefore(t) /\ t \in SeqToSet(rmTags[r])
              /\ ~NoCompletedBefore(u) /\ u \notin SeqToSet(rmTags[r])

\* a step takes nothing away from a completed tag
KeepCompletedStep ==
    /\ done \subseteq done'
    /\ \A t \in done :
          /\ t \in ckpt'
          /\ t \in dirs'
          /\ PayloadOf(t) \cap files \subseteq files'

\* C17: when the keep count is None or -1, no retention pass has a completed tag in its
\* removal set, and no step of any run takes away the `done` marker, a payload file, the
\* `checkpoint` marker or the directory of a completed tag.
KeepAllKeepsCompleted ==
    /\ [](numKept \in KeepAllCounts =>
            \A r \in Ranks : SeqToSet(rmTags[r]) \cap everDone = {})
    /\ [][(numKept \in KeepAllCounts) => KeepCompletedStep]_vars

\* with num_kept = -1, an asynchronous retention pass that found two completed tags has
\* an empty removal set, and both tags have all their payload files
KeepAllKeepsCompletedWitness ==
    /\ numKept = <<-1>>
    /\ asyncSave
    /\ Cardinality(done) >= 2
    /\ \A t \in done : PayloadOf(t) \subseteq files /\ t \in dirs
    /\ \E r \in Ranks : pc[r] = "sr_b1" /\ Len(rmScan[r]) >= 2 /\ rmTags[r] = <<>>

\* the call rank r is in, or has last returned from, is a drain point (begin() of the next
\* tag, or wait_all()) that follows an asynchronous end()
DrainFollowsEnd(r) ==
    /\ asyncSave
    /\ ncalls[r] >= 2
    /\ script[ncalls[r] - 1] = "save"
    /\ script[ncalls[r]] \in {"save", "final"}

\* rank r has returned, without error, from the drain that follows an end()
DrainReturned(r) ==
    /\ DrainFollowsEnd(r)
    /\ ~raised[r]
    /\ \/ pc[r] = "begin"
       \/ pc[r] = "idle" /\ script[ncalls[r]] = "final"

\* C18: in the drain that follows an asynchronous end(), whatever the ranks queued, the
\* cycle's tag has its `done` marker when any rank begins the retention scan and when the
\* drain has returned, and the marker is written by rank 0 between the barriers "async
\* saving checkpoint done" and "mark checkpoint as done".
DrainMarksDone ==
    /\ [](\A r \in Ranks :
            /\ (DrainFollowsEnd(r) /\ pc[r] = "sr_scan") => curTag[r] \in done
            /\ DrainReturned(r) => curTag[r] \in everDone)
    /\ [][(asyncSave /\ done' \ done # {}) =>
            /\ pc[0] = "ws_mark"
            /\ pc'[0] = "ws_b2"
            /\ done' \ done = {curTag[0]}
            /\ \A r \in Ranks \ {0} : pc[r] = "ws_b2"]_vars

\* rank r is inside an asynchronous save cycle: begin() has recorded the tag, and the
\* next drain point has not been entered
InAsyncCycle(r) ==
    /\ asyncSave
    /\ curTag[r] # 0
    /\ \/ pc[r] \in {"begin_mark", "save"}
       \/ pc[r] = "idle" /\ ncalls[r] >= 1 /\ script[ncalls[r]] = "save" /\ ~raised[r]

\* the step of rank r is an asynchronous end()
AsyncEndStep(r) == asyncSave /\ pc[r] = "save" /\ todo[r] = <<>> /\ pc'[r] = "idle"

\* C19: an asynchronous end() hands the queued save items to the background runner and
\* returns at once: it joins no barrier and changes no marker, file or directory; and from
\* begin() until the next drain point the cycle's tag has no `done` marker.
AsyncEndReturnsAtOnce ==
    /\ [](\A r \in Ranks : InAsyncCycle(r) => curTag[r] \notin done)
    /\ [][\A r \in Ranks : AsyncEndStep(r) =>
            /\ saveItems[r] # <<>> =>
                  saveTask'[r] = [st |-> "run", items |-> saveItems[r], held |-> TRUE]
            /\ saveItems[r] = <<>> => saveTask'[r] = saveTask[r]
            /\ <<ckpt, done, dirs, files>>' = <<ckpt, done, dirs, files>>
            /\ \A q \in Ranks \ {r} : pc'[q] = pc[q]]_vars

\* rank 0 has returned from the asynchronous end() of its second cycle: the items are
\* with the runner, the first tag is complete and the second is not
AsyncEndReturnsAtOnceWitness ==
    /\ asyncSave
    /\ pc[0] = "idle"
    /\ InAsyncCycle(0)
    /\ saveTask[0].st = "run"
    /\ saveTask[0].items = saveItems[0]
    /\ curTag[0] - 1 \in done
    /\ curTag[0] \notin done

\* the tags whose directory the step removes
RemovedDirs == dirs \ dirs'

\* C20: in every retention pass the directory of a tag is removed by rank 0 only, after
\* the barrier "remove files done", when no rank has a payload file of that tag left to
\* delete: neither in its synchronous remove_files nor in its background removal task.
DirsRemovedAfterAllFilesDeleted ==
    [][RemovedDirs # {} =>
        /\ pc[0] \in {"sr_dirs", "wr_dirs"}
        /\ \A r \in Ranks \ {0} : pc[r] \notin {"sr_files", "sr_b2", "wr_wait", "wr_b1"}
        /\ \A r \in Ranks : \A d \in PendingDeletes(r) : d[1] \notin RemovedDirs]_vars

\* rank 0 is about to remove the directory of a tag in an asynchronous pass, after two
\* ranks each deleted a payload file of that tag in the background
DirsRemovedAfterAllFilesDeletedWitness ==
    /\ world.n = 2
    /\ pc[0] = "wr_dirs"
    /\ rmLeft[0] # <<>>
    /\ Head(rmLeft[0]) \in dirs
    /\ \A r \in Ranks :
          /\ relNames[r] # {}
          /\ \A f \in relNames[r] : <<Head(rmLeft[0]), f>> \notin files

\* the step writes or removes a `checkpoint` or `done` marker, or removes a tag directory
ChangesListing == ckpt' # ckpt \/ done' # done \/ dirs \ dirs' # {}

\* C21: no step that writes or removes a marker or removes a tag directory is taken while
\* a rank is in the storage scan of _determine_remove_tags, and the ranks that have scanned
\* in a pass hold the same removal set.
ScanNeverRacesCoordinator ==
    /\ [](\A r, q \in Ranks :
            (pc[r] = "sr_b1" /\ pc[q] = "sr_b1") => rmTags[r] = rmTags[q])
    /\ [][ChangesListing => \A r \in Ranks : pc[r] # "sr_scan"]_vars

\* in an asynchronous pass that follows a pass which removed a tag, rank 0 has scanned and
\* found a tag to remove while rank 1 is still to scan
ScanNeverRacesCoordinatorWitness ==
    /\ asyncSave
    /\ world.n = 2
    /\ pc[0] = "sr_b1"
    /\ pc[1] = "sr_scan"
    /\ rmTags[0] # <<>>
    /\ \E t \in everDone : t \notin dirs

\* every rank waits at a barrier, and not all at a barrier of the same name
BarrierMismatch == (\A r \in Ranks : pc[r] \in BarrierPcs) /\ ~AllArrived

\* C22: when all ranks make the same sequence of save_checkpoint and finalize_checkpoint
\* calls and no background task fails, the ranks never wait at barriers of different
\* names, and every call a rank is in eventually returns.
EveryCallReturns ==
    /\ []~BarrierMismatch
    /\ \A r \in 0 .. (MaxRanks - 1) : (r \in Ranks /\ pc[r] # "idle") ~> (r \in Ranks /\ pc[r] = "idle")

\* two ranks have made three save calls and a finalize call in asynchronous mode with a
\* keep count of 1, and all calls have returned
EveryCallReturnsWitness ==
    /\ asyncSave
    /\ world.n = 2
    /\ numKept = <<1>>
    /\ Len(script) = MaxTags + 1
    /\ \A r \in Ranks : ncalls[r] = Len(script) /\ pc[r] = "idle"
    /\ Cardinality(done) = 1

\* the filename begins with the characters of the tag followed by a slash
RootedUnder(filename, tag) ==
    /\ Len(filename) > Len(tag)
    /\ \A i \in 1 .. Len(tag) : filename[i] = tag[i]
    /\ filename[Len(tag) + 1] = "/"

\* the characters of the filename after the tag and its slash
PartAfterTag(filename, tag) == [i \in 1 .. (Len(filename) - Len(tag) - 1) |-> filename[i + Len(tag) + 1]]

\* the step of rank r is an add_save_task call
AddSaveTaskStep(r) == pc[r] = "save" /\ todo[r] # <<>> /\ todo'[r] = Tail(todo[r])

\* C23: add_save_task with a filename that is not rooted under the current tag fails and
\* leaves the written-paths set, the save queue and the storage as they were; with a
\* filename rooted under the current tag it adds the tag-relative part to the written-paths
\* set.
AddSaveTaskRequiresRootedPath ==
    [][\A r \in Ranks : AddSaveTaskStep(r) =>
        IF RootedUnder(Head(todo[r]), curTag[r])
        THEN /\ ~raised'[r]
             /\ relNames'[r] = relNames[r] \cup {PartAfterTag(Head(todo[r]), curTag[r])}
        ELSE /\ raised'[r]
             /\ relNames' = relNames
             /\ saveItems' = saveItems
             /\ saveTask' = saveTask
             /\ <<ckpt, done, dirs, files>>' = <<ckpt, done, dirs, files>>]_vars

\* under the tag "a", add_save_task refused a filename that begins with "ab/" after it
\* had taken the filename "a/b"
AddSaveTaskRequiresRootedPathWitness ==
    \E r \in Ranks :
        /\ curTag[r] = <<"a">>
        /\ raised[r]
        /\ todo[r] = <<>>
        /\ ncalls[r] = 2
        /\ relNames[r] = {<<"b">>}
        /\ saveItems[r] = <<<<"a", "/", "b">>>>

\* the tags that lose a payload file, a marker or their directory in the step
TouchedTags ==
    {f[1] : f \in files \ files'} \cup (done \ done') \cup (ckpt \ ckpt') \cup (dirs \ dirs')

\* the removal sets of the retention passes that are under way
PassTags ==
    UNION {SeqToSet(rmTags[r]) \cup SeqToSet(removeTagsF[r])
           \cup {d[1] : d \in PendingDeletes(r)} : r \in Ranks}

\* the tags being written: a rank has begun the tag and is adding its save items, or
\* has handed them to the background runner and has not entered the next drain point
BeingWritten ==
    {curTag[r] : r \in {q \in Ranks : pc[q] \in {"begin_mark", "save"} \/ InAsyncCycle(q)}}
    \ {0}

\* the completed tags with fewer than K newer completed tags; all of them when K is
\* None or -1
NewestCompleted ==
    {t \in done : numKept \in KeepAllCounts
                   \/ Cardinality({c \in done : c > t}) < numKept[1]}

\* C24: a step of a retention pass deletes payload files, markers and directories only of
\* tags of the removal set of a pass under way, never of the tag being written and never
\* of one of the K newest completed tags.
RetentionTouchesRemovalSetOnly ==
    [][/\ TouchedTags \subseteq PassTags
       /\ TouchedTags \cap BeingWritten = {}
       /\ TouchedTags \cap NewestCompleted = {}]_vars

\* with a keep count of 1, the background removal task of a rank has deleted a file of the
\* oldest tag while the rank queues the items of the next tag
RetentionTouchesRemovalSetOnlyWitness ==
    /\ asyncSave
    /\ numKept = <<1>>
    /\ Cardinality(done) = 1
    /\ \E r \in Ranks :
          /\ pc[r] = "save"
          /\ saveItems[r] # <<>>
          /\ curTag[r] \in BeingWritten
          /\ removeTask[r].st = "run"
          /\ removeTask[r].items # {}
          /\ \E t \in SeqToSet(removeTagsF[r]) : ~(PayloadOf(t) \subseteq files)

\* the call rank r is in, or has last returned from, is a wait_all() that directly follows
\* another wait_all()
InSecondWaitAll(r) ==
    /\ ncalls[r] >= 2
    /\ script[ncalls[r]] = "final"
    /\ script[ncalls[r] - 1] = "final"

\* C25: once wait_all() has returned on all ranks and every rank has gone on to a second
\* wait_all(), no save or removal task is outstanding, and no step writes or removes a
\* marker or deletes a file or directory: the storage stays as the first call left it.
DrainingIsIdempotent ==
    /\ []((\A r \in Ranks : InSecondWaitAll(r)) =>
            \A r \in Ranks : saveTask[r].st # "run" /\ removeTask[r].st # "run")
    /\ [][(\A r \in Ranks : InSecondWaitAll(r)) =>
            <<ckpt, done, dirs, files>>' = <<ckpt, done, dirs, files>>]_vars
====
